---- MODULE Spec2Model ----
(***************************************************************************)
(* Model of django_xlsform_validator.validation.XLSFormValidator: schema   *)
(* extraction from a pyxform tree, column resolution, the per-cell type    *)
(* and constraint checks and the scan of _validate_spreadsheet_data.       *)
(*                                                                         *)
(* Python strings are sequences of one-character strings, so that str(),   *)
(* lower(), split(), int() and float() are computed character by           *)
(* character. Python scalars are records:                                  *)
(*   [t |-> "str", s |-> chars]   a str                                    *)
(*   [t |-> "int", n |-> k]       an int                                   *)
(*   [t |-> "float", n |-> k]     the float k/10 (one fractional digit)    *)
(*   [t |-> "nan"]                NaN / None, what pd.isna() accepts       *)
(*   [t |-> "inf"]                the float inf                            *)
(*   [t |-> "datetime"]           a Timestamp, the value of a date cell    *)
(***************************************************************************)
EXTENDS Integers, Sequences, FiniteSets, TLC

VARIABLES
    survey,                \* the pyxform JSON handed to the extraction
    question_types,        \* self.question_types
    question_constraints,  \* self.question_constraints
    required_questions,    \* self.required_questions
    choice_lists,          \* self.choice_lists
    question_labels,       \* self.question_labels
    choice_aliases,        \* self.choice_aliases
    data_instance_template, \* self.data_instance_template
    sheet,                 \* the uploaded spreadsheet: header row and rows
    df,                    \* the DataFrame pd.read_excel delivers
    errors,                \* the list _validate_spreadsheet_data builds
    col_idx,               \* loop variable of the column loop
    row_idx,               \* loop variable of the row loop
    question_name,         \* the question of the column being scanned
    result,                \* what validate_spreadsheet returned
    pc,                    \* position of the validator
    call,                  \* arguments of a direct call of a pure method
    ret,                   \* its return value
    proc,                  \* the external process started by Popen
    watchdog,              \* the threading.Timer of run_popen_with_timeout
    kill_check,            \* the threading.Event kill_check
    signals,               \* the signals os.kill has delivered
    popen_result,          \* the PopenResult returned to the caller
    gen,                   \* the generator generate_xml_from_spreadsheet returned
    consumed,              \* the documents its consumer received, pass by pass
    request,               \* the validated data of the request to create
    response,              \* what create answered
    session,               \* request.session
    tries,                 \* the local tries of check_readable
    attempts               \* the calls of catch_try check_readable has made

vars == <<survey, question_types, question_constraints, required_questions,
          choice_lists, question_labels, choice_aliases,
          data_instance_template, sheet, df, errors,
          col_idx, row_idx, question_name, result, pc, call, ret,
          proc, watchdog, kill_check, signals, popen_result,
          gen, consumed, request, response, session, tries, attempts>>

schema_vars == <<question_types, question_constraints, required_questions,
                 choice_lists, question_labels, choice_aliases,
                 data_instance_template>>

\* the mappings of the schema, without the template
question_vars == <<question_types, question_constraints, required_questions,
                   choice_lists, question_labels, choice_aliases>>

scan_vars == <<sheet, df, errors, col_idx, row_idx, question_name, result>>

runner_vars == <<proc, watchdog, kill_check, signals, popen_result>>

view_vars == <<gen, consumed, request, response, session>>

\* the state outside the validator
readable_vars == <<tries, attempts>>

ext_vars == <<runner_vars, view_vars, readable_vars>>

(***************************************************************************)
(* Bounds of the model.                                                    *)
(***************************************************************************)
MaxRows == 2

(***************************************************************************)
(* Python values and strings.                                              *)
(***************************************************************************)
\* Optional[...]: None, or Some(x) for a returned x
None == [some |-> FALSE]

Some(x) == [some |-> TRUE, v |-> x]

NaN == [t |-> "nan"]

PyS(chars) == [t |-> "str", s |-> chars]

PyI(k) == [t |-> "int", n |-> k]

PyF(tenths) == [t |-> "float", n |-> tenths]

PyInf == [t |-> "inf"]

Timestamp == [t |-> "datetime"]

Digits == {"0", "1", "2", "3", "4", "5", "6", "7", "8", "9"}

DigitChar == <<"0", "1", "2", "3", "4", "5", "6", "7", "8", "9">>

DigitVal(c) == CHOOSE d \in 0..9 : DigitChar[d + 1] = c

Whitespace == {" "}

UpperToLower ==
    [c \in {"A", "B", "C", "D", "E", "F", "G", "H", "I", "J", "K", "L", "M",
            "N", "O", "P", "Q", "R", "S", "T", "U", "V", "W", "X", "Y", "Z"} |->
        CASE c = "A" -> "a" [] c = "B" -> "b" [] c = "C" -> "c" [] c = "D" -> "d"
          [] c = "E" -> "e" [] c = "F" -> "f" [] c = "G" -> "g" [] c = "H" -> "h"
          [] c = "I" -> "i" [] c = "J" -> "j" [] c = "K" -> "k" [] c = "L" -> "l"
          [] c = "M" -> "m" [] c = "N" -> "n" [] c = "O" -> "o" [] c = "P" -> "p"
          [] c = "Q" -> "q" [] c = "R" -> "r" [] c = "S" -> "s" [] c = "T" -> "t"
          [] c = "U" -> "u" [] c = "V" -> "v" [] c = "W" -> "w" [] c = "X" -> "x"
          [] c = "Y" -> "y" [] c = "Z" -> "z"]

\* str.lower()
Lower(s) ==
    [i \in 1..Len(s) |->
        IF s[i] \in DOMAIN UpperToLower THEN UpperToLower[s[i]] ELSE s[i]]

\* str.startswith(prefix)
StartsWith(s, prefix) ==
    /\ Len(s) >= Len(prefix)
    /\ SubSeq(s, 1, Len(prefix)) = prefix

RECURSIVE LStrip(_)
LStrip(s) ==
    IF s # <<>> /\ Head(s) \in Whitespace THEN LStrip(Tail(s)) ELSE s

RECURSIVE RStrip(_)
RStrip(s) ==
    IF s # <<>> /\ s[Len(s)] \in Whitespace
    THEN RStrip(SubSeq(s, 1, Len(s) - 1))
    ELSE s

\* str.strip()
Strip(s) == RStrip(LStrip(s))

\* str.split(): the maximal runs of non-whitespace characters, in order
RECURSIVE SplitWs(_, _, _)
SplitWs(s, cur, acc) ==
    IF s = <<>>
    THEN IF cur = <<>> THEN acc ELSE Append(acc, cur)
    ELSE IF Head(s) \in Whitespace
         THEN SplitWs(Tail(s), <<>>, IF cur = <<>> THEN acc ELSE Append(acc, cur))
         ELSE SplitWs(Tail(s), Append(cur, Head(s)), acc)

Split(s) == SplitWs(s, <<>>, <<>>)

\* str.split(" ", 1): cut at the first blank, if there is one
SplitFirstBlank(s) ==
    IF \E i \in 1..Len(s) : s[i] = " "
    THEN LET i == CHOOSE k \in 1..Len(s) :
                      s[k] = " " /\ \A j \in 1..(k - 1) : s[j] # " "
         IN  <<SubSeq(s, 1, i - 1), SubSeq(s, i + 1, Len(s))>>
    ELSE <<s>>

AllDigits(s) == s # <<>> /\ \A i \in 1..Len(s) : s[i] \in Digits

RECURSIVE DigitsToNat(_, _)
DigitsToNat(s, acc) ==
    IF s = <<>> THEN acc ELSE DigitsToNat(Tail(s), 10 * acc + DigitVal(Head(s)))

RECURSIVE NatToStr(_)
NatToStr(k) ==
    IF k < 10 THEN <<DigitChar[k + 1]>>
    ELSE Append(NatToStr(k \div 10), DigitChar[(k % 10) + 1])

IntToStr(k) == IF k < 0 THEN <<"-">> \o NatToStr(-k) ELSE NatToStr(k)

\* str(value): repr of an int, repr of a float with one fractional digit
\* ("30.0", "75.5", "-5.0"), a str unchanged, "nan" for NaN
PyStr(value) ==
    CASE value.t = "str" -> value.s
      [] value.t = "int" -> IntToStr(value.n)
      [] value.t = "float" ->
            LET a == IF value.n < 0 THEN -value.n ELSE value.n
            IN  (IF value.n < 0 THEN <<"-">> ELSE <<>>)
                \o NatToStr(a \div 10) \o <<".">> \o NatToStr(a % 10)
      [] value.t = "nan" -> <<"n", "a", "n">>
      [] value.t = "inf" -> <<"i", "n", "f">>
      [] value.t = "datetime" ->
            <<"2", "0", "2", "4", "-", "0", "1", "-", "0", "2", " ",
              "0", "0", ":", "0", "0", ":", "0", "0">>

Unsigned(s) == IF s # <<>> /\ Head(s) \in {"+", "-"} THEN Tail(s) ELSE s

\* int(str) does not raise ValueError: blanks stripped, optional sign, digits
IntLiteral(s) == AllDigits(Unsigned(Strip(s)))

\* the digits before and after the first "."
DotSplit(s) ==
    IF \E i \in 1..Len(s) : s[i] = "."
    THEN LET i == CHOOSE k \in 1..Len(s) :
                      s[k] = "." /\ \A j \in 1..(k - 1) : s[j] # "."
         IN  <<SubSeq(s, 1, i - 1), SubSeq(s, i + 1, Len(s))>>
    ELSE <<s, <<>>>>

\* the mantissa and the exponent part, cut at the first "e" or "E"
ExpSplit(s) ==
    IF \E i \in 1..Len(s) : s[i] \in {"e", "E"}
    THEN LET i == CHOOSE k \in 1..Len(s) :
                      s[k] \in {"e", "E"} /\ \A j \in 1..(k - 1) : s[j] \notin {"e", "E"}
         IN  <<SubSeq(s, 1, i - 1), SubSeq(s, i, Len(s))>>
    ELSE <<s, <<>>>>

\* digits with an optional fraction: "30", "30.", "30.5", ".5"
Mantissa(s) ==
    LET p == DotSplit(s)
    IN  /\ p[1] = <<>> \/ AllDigits(p[1])
        /\ p[2] = <<>> \/ AllDigits(p[2])
        /\ p[1] # <<>> \/ p[2] # <<>>

\* float(str) does not raise ValueError: blanks stripped, optional sign, then
\* nan / inf / infinity, or a mantissa with an optional exponent
FloatLiteral(s) ==
    LET u == Unsigned(Strip(s))
        p == ExpSplit(u)
    IN  \/ Lower(u) \in {<<"n", "a", "n">>, <<"i", "n", "f">>,
                         <<"i", "n", "f", "i", "n", "i", "t", "y">>}
        \/ /\ Mantissa(p[1])
           /\ p[2] = <<>> \/ AllDigits(Unsigned(Tail(p[2])))

\* pd.isna(value)
isna(value) == value.t = "nan"

(***************************************************************************)
(* dict operations.                                                        *)
(***************************************************************************)
EmptyDict == <<>>

\* faulty variant: an existing key keeps its value (dict.setdefault)
Put_keep_first(d, k, v) ==
    [x \in (DOMAIN d) \cup {k} |-> IF x \in DOMAIN d THEN d[x] ELSE v]

\* d[k] = v
Put(d, k, v) == [x \in (DOMAIN d) \cup {k} |-> IF x = k THEN v ELSE d[x]]

(***************************************************************************)
(* The pyxform tree. A node is a record whose field keys is the set of     *)
(* keys the JSON object has; a field whose key is absent holds a filler.   *)
(***************************************************************************)
s_meta == <<"m", "e", "t", "a">>

t_group == <<"g", "r", "o", "u", "p">>

t_integer == <<"i", "n", "t", "e", "g", "e", "r">>

t_decimal == <<"d", "e", "c", "i", "m", "a", "l">>

t_date == <<"d", "a", "t", "e">>

t_time == <<"t", "i", "m", "e">>

t_select_one == <<"s", "e", "l", "e", "c", "t", "_", "o", "n", "e">>

t_select_multiple ==
    <<"s", "e", "l", "e", "c", "t", "_", "m", "u", "l", "t", "i", "p", "l", "e">>

s_yes == <<"y", "e", "s">>

NoBind ==
    [keys |-> {}, required |-> <<>>, constraint |-> <<>>, constraintMsg |-> <<>>]

\* {"name": n, "type": ty, "label": l, "bind": b}, label and bind optional
Question(n, ty, hasLabel, l, hasBind, b) ==
    [keys |-> {"name", "type"}
              \cup (IF hasLabel THEN {"label"} ELSE {})
              \cup (IF hasBind THEN {"bind"} ELSE {}),
     name |-> n, type |-> ty, label |-> l, bind |-> b, children |-> <<>>]

\* {"name": n, "type": "group", "children": [...]}
Group(n, kids) ==
    [keys |-> {"name", "type", "children"},
     name |-> n, type |-> t_group, label |-> <<>>, bind |-> NoBind,
     children |-> kids]

\* the four mappings _process_question_node writes
SchemaState ==
    [question_types |-> question_types,
     question_labels |-> question_labels,
     required_questions |-> required_questions,
     question_constraints |-> question_constraints]

RECURSIVE _process_question_node(_, _)
RECURSIVE ProcessChildren(_, _)

\* faulty variant: a group or meta node is skipped with all it holds
_process_question_node_skips_groups(node, st) ==
    IF "name" \notin node.keys \/ "type" \notin node.keys THEN st
    ELSE IF node.name = s_meta \/ node.type = t_group THEN st
    ELSE LET name == node.name
             hasBind == "bind" \in node.keys
         IN  [question_types |-> Put(st.question_types, name, node.type),
              question_labels |->
                  IF "label" \in node.keys
                  THEN Put(st.question_labels, node.label, name)
                  ELSE st.question_labels,
              required_questions |->
                  IF hasBind /\ "required" \in node.bind.keys
                             /\ node.bind.required = s_yes
                  THEN st.required_questions \cup {name}
                  ELSE st.required_questions,
              question_constraints |->
                  IF hasBind /\ "constraint" \in node.bind.keys
                  THEN Put(st.question_constraints, name, node.bind.constraint)
                  ELSE st.question_constraints]

\* for child in children: self._process_question_node(child)
ProcessChildren(children, st) ==
    IF children = <<>> THEN st
    ELSE ProcessChildren(Tail(children), _process_question_node(Head(children), st))

_process_question_node(node, st) ==
    IF "name" \notin node.keys \/ "type" \notin node.keys THEN st
    ELSE IF node.name = s_meta \/ node.type = t_group
    THEN IF "children" \in node.keys THEN ProcessChildren(node.children, st) ELSE st
    ELSE LET name == node.name
             hasBind == "bind" \in node.keys
         IN  [question_types |-> Put(st.question_types, name, node.type),
              question_labels |->
                  IF "label" \in node.keys
                  THEN Put(st.question_labels, node.label, name)
                  ELSE st.question_labels,
              required_questions |->
                  IF hasBind /\ "required" \in node.bind.keys
                             /\ node.bind.required = s_yes
                  THEN st.required_questions \cup {name}
                  ELSE st.required_questions,
              question_constraints |->
                  IF hasBind /\ "constraint" \in node.bind.keys
                  THEN Put(st.question_constraints, name, node.bind.constraint)
                  ELSE st.question_constraints]

_extract_questions_from_pyxform(parsed_survey, st) ==
    IF "children" \notin parsed_survey.keys THEN st
    ELSE ProcessChildren(parsed_survey.children, st)

\* the choices of one list appended to choice_lists[list_name]
RECURSIVE AppendChoices(_, _)
AppendChoices(choices, lst) ==
    IF choices = <<>> THEN lst
    ELSE AppendChoices(Tail(choices),
                       IF "name" \in Head(choices).keys
                       THEN Append(lst, Head(choices).name)
                       ELSE lst)

\* the aliases of one list written to choice_aliases[list_name]
RECURSIVE PutAliases(_, _)
PutAliases(choices, d) ==
    IF choices = <<>> THEN d
    ELSE PutAliases(Tail(choices),
                    IF "name" \in Head(choices).keys /\ "alias" \in Head(choices).keys
                    THEN Put(d, Head(choices).alias, Head(choices).name)
                    ELSE d)

\* the new values of choice_lists and choice_aliases
_extract_choices_from_pyxform(parsed_survey, lists, aliases) ==
    IF "choices" \notin parsed_survey.keys
    THEN [choice_lists |-> lists, choice_aliases |-> aliases]
    ELSE LET names == DOMAIN parsed_survey.choices
             old(d, n, empty) == IF n \in DOMAIN d THEN d[n] ELSE empty
         IN  [choice_lists |->
                  [n \in (DOMAIN lists) \cup names |->
                      IF n \in names
                      THEN AppendChoices(parsed_survey.choices[n], old(lists, n, <<>>))
                      ELSE lists[n]],
              choice_aliases |->
                  [n \in (DOMAIN aliases) \cup names |->
                      IF n \in names
                      THEN PutAliases(parsed_survey.choices[n],
                                      IF n \in DOMAIN lists
                                      THEN old(aliases, n, EmptyDict)
                                      ELSE EmptyDict)
                      ELSE aliases[n]]]

(***************************************************************************)
(* The data instance template. survey.to_xml() holds one element per node  *)
(* of the form below the instance root, which carries the form's name and  *)
(* an id; the elements before the root (html, head, title, model,          *)
(* instance) have no "data" in their tags. An element is held as its tag,  *)
(* the tags of its descendants and the texts written into them.            *)
(***************************************************************************)
s_data == <<"d", "a", "t", "a">>

s_None == <<"N", "o", "n", "e">>

s_household == <<"h", "o", "u", "s", "e", "h", "o", "l", "d">>

s_instanceID == <<"i", "n", "s", "t", "a", "n", "c", "e", "I", "D">>

\* sub in s
Contains(s, sub) ==
    \E i \in 0..(Len(s) - Len(sub)) : SubSeq(s, i + 1, i + Len(sub)) = sub

\* s.endswith(suffix)
EndsWith(s, suffix) ==
    /\ Len(suffix) <= Len(s)
    /\ SubSeq(s, Len(s) - Len(suffix) + 1, Len(s)) = suffix

\* the tags of the elements pyxform writes for the nodes
RECURSIVE ElementTags(_)
ElementTags(children) ==
    IF children = <<>> THEN {}
    ELSE LET node == Head(children)
         IN  (IF "name" \in node.keys THEN {node.name} ELSE {})
             \cup ElementTags(node.children)
             \cup ElementTags(Tail(children))

\* the instance root of survey.to_xml(): <name id=...> with the questions and
\* <meta><instanceID/></meta>
InstanceRoot(parsed_survey) ==
    [tag |-> parsed_survey.name, id |-> TRUE,
     elements |-> ElementTags(parsed_survey.children)
                  \cup {s_meta, s_instanceID},
     text |-> EmptyDict]

\* the elements of root.iter() from the instance root on, in document order
RECURSIVE IterElements(_)
IterElements(children) ==
    IF children = <<>> THEN <<>>
    ELSE LET node == Head(children)
         IN  (IF "name" \in node.keys
              THEN <<[tag |-> node.name, id |-> FALSE,
                      elements |-> ElementTags(node.children),
                      text |-> EmptyDict]>>
              ELSE <<>>)
             \o IterElements(node.children)
             \o IterElements(Tail(children))

\* _extract_data_instance_template: the first element whose tag holds "data",
\* or ends with "None" and has an id; without one the attribute keeps its
\* value
RECURSIVE FirstTemplate(_, _)
FirstTemplate(elems, old) ==
    IF elems = <<>> THEN old
    ELSE LET elem == Head(elems)
         IN  IF EndsWith(elem.tag, s_data) \/ Contains(elem.tag, s_data)
             THEN Some(elem)
             ELSE IF EndsWith(elem.tag, s_None) /\ elem.id
             THEN Some(elem)
             ELSE FirstTemplate(Tail(elems), old)

_extract_data_instance_template(parsed_survey, old) ==
    FirstTemplate(<<InstanceRoot(parsed_survey)>>
                  \o IterElements(parsed_survey.children), old)

\* a file create_survey_from_xls turns into a survey; for any other file it
\* raises
Parseable(f) == "keys" \in DOMAIN f

\* XLSFormValidator.parse_xlsform: on a form pyxform accepts the schema state
\* is filled and True is returned; an exception of pyxform is caught and
\* False is returned
parse_xlsform ==
    /\ pc = "new"
    /\ IF ~Parseable(survey)
       THEN /\ pc' = "parse_failed"
            /\ UNCHANGED schema_vars
       ELSE /\ LET st == _extract_questions_from_pyxform(survey, SchemaState)
                   ch == _extract_choices_from_pyxform(survey, choice_lists,
                                                       choice_aliases)
               IN  /\ question_types' = st.question_types
                   /\ question_labels' = st.question_labels
                   /\ required_questions' = st.required_questions
                   /\ question_constraints' = st.question_constraints
                   /\ choice_lists' = ch.choice_lists
                   /\ choice_aliases' = ch.choice_aliases
            /\ data_instance_template' =
                   _extract_data_instance_template(survey,
                                                   data_instance_template)
            /\ pc' = "parsed"
    /\ UNCHANGED <<survey, scan_vars, call, ret>>
    /\ UNCHANGED ext_vars

(***************************************************************************)
(* Column resolution.                                                      *)
(***************************************************************************)
\* faulty variant: the labels are looked up before the names
_resolve_column_to_question_name_labels_first(column) ==
    IF column \in DOMAIN question_labels THEN Some(question_labels[column])
    ELSE IF column \in DOMAIN question_types THEN Some(column)
    ELSE None

_resolve_column_to_question_name(column) ==
    IF column \in DOMAIN question_types THEN Some(column)
    ELSE IF column \in DOMAIN question_labels THEN Some(question_labels[column])
    ELSE None

(***************************************************************************)
(* Type check.                                                             *)
(***************************************************************************)
_extract_list_name(question_type) ==
    IF \/ StartsWith(question_type, Append(t_select_one, " "))
       \/ StartsWith(question_type, Append(t_select_multiple, " "))
    THEN LET parts == SplitFirstBlank(question_type)
         IN  IF Len(parts) > 1 THEN Some(Strip(parts[2])) ELSE None
    ELSE None

\* str.split(sep) for a one-character separator
RECURSIVE SplitOn(_, _, _, _)
SplitOn(s, sep, cur, acc) ==
    IF s = <<>> THEN Append(acc, cur)
    ELSE IF Head(s) = sep
         THEN SplitOn(Tail(s), sep, <<>>, Append(acc, cur))
         ELSE SplitOn(Tail(s), sep, Append(cur, Head(s)), acc)

\* a run of between lo and hi digits
DigitField(s, lo, hi) == AllDigits(s) /\ Len(s) >= lo /\ Len(s) <= hi

\* re.match(r"^\d{4}-\d{2}-\d{2}$", value)
date_pattern(value) ==
    LET f == SplitOn(value, "-", <<>>, <<>>)
    IN  /\ Len(f) = 3
        /\ DigitField(f[1], 4, 4)
        /\ DigitField(f[2], 2, 2)
        /\ DigitField(f[3], 2, 2)

DaysInMonth(y, m) ==
    IF m \in {4, 6, 9, 11} THEN 30
    ELSE IF m = 2
         THEN IF (y % 4 = 0 /\ y % 100 # 0) \/ y % 400 = 0 THEN 29 ELSE 28
         ELSE 31

\* datetime.strptime(value, "%Y-%m-%d %H:%M:%S") succeeds and strftime("%Y-%m-%d")
\* of the result matches date_pattern (a year below 1000 is not padded)
strptime_date(value) ==
    LET parts == Split(value)
    IN  /\ Len(parts) = 2
        /\ value # <<>> /\ Head(value) \notin Whitespace
        /\ value[Len(value)] \notin Whitespace
        /\ LET d == SplitOn(parts[1], "-", <<>>, <<>>)
               h == SplitOn(parts[2], ":", <<>>, <<>>)
           IN  /\ Len(d) = 3 /\ Len(h) = 3
               /\ DigitField(d[1], 4, 4)
               /\ DigitField(d[2], 1, 2) /\ DigitField(d[3], 1, 2)
               /\ DigitField(h[1], 1, 2) /\ DigitField(h[2], 1, 2)
               /\ DigitField(h[3], 1, 2)
               /\ LET y == DigitsToNat(d[1], 0)
                      m == DigitsToNat(d[2], 0)
                      dd == DigitsToNat(d[3], 0)
                  IN  /\ y >= 1000
                      /\ m >= 1 /\ m <= 12
                      /\ dd >= 1 /\ dd <= DaysInMonth(y, m)
               /\ DigitsToNat(h[1], 0) <= 23
               /\ DigitsToNat(h[2], 0) <= 59
               /\ DigitsToNat(h[3], 0) <= 59

\* re.match(r"^\d{2}:\d{2}(:\d{2})?$", value)
time_pattern(value) ==
    LET f == SplitOn(value, ":", <<>>, <<>>)
    IN  /\ Len(f) \in {2, 3}
        /\ \A i \in 1..Len(f) : DigitField(f[i], 2, 2)

\* [str(choice).lower() for choice in self.choice_lists[list_name]]
ChoicesLower(list_name) ==
    {Lower(PyStr(choice_lists[list_name][i])) :
        i \in 1..Len(choice_lists[list_name])}

\* faulty variant: the aliases are not consulted
AliasesLower_ignored(list_name) == {}

\* the keys of {str(alias).lower(): choice for alias, choice in ...items()}
AliasesLower(list_name) ==
    IF list_name \in DOMAIN choice_aliases
    THEN {Lower(PyStr(alias)) : alias \in DOMAIN choice_aliases[list_name]}
    ELSE {}

\* list_name and list_name in self.choice_lists
KnownList(list_name) ==
    /\ list_name.some
    /\ list_name.v # <<>>
    /\ list_name.v \in DOMAIN choice_lists

\* faulty variant: a select question without a known choice list rejects
_validate_type_strict(value, question_type, list_name) ==
    LET v == IF value.t # "str" THEN PyStr(value) ELSE value.s
    IN  IF question_type = t_integer
        THEN IF IntLiteral(v) THEN None ELSE Some("is not a valid integer")
        ELSE IF question_type = t_decimal
        THEN IF FloatLiteral(v) THEN None ELSE Some("is not a valid decimal")
        ELSE IF StartsWith(question_type, t_select_one)
        THEN IF \/ ~KnownList(list_name)
                \/ /\ Lower(v) \notin ChoicesLower(list_name.v)
                   /\ Lower(v) \notin AliasesLower(list_name.v)
             THEN Some("is not a valid choice for select_one")
             ELSE None
        ELSE IF StartsWith(question_type, t_select_multiple)
        THEN IF \/ ~KnownList(list_name)
                \/ \E i \in 1..Len(Split(v)) :
                      /\ Lower(Strip(Split(v)[i])) \notin ChoicesLower(list_name.v)
                      /\ Lower(Strip(Split(v)[i])) \notin AliasesLower(list_name.v)
             THEN Some("is not a valid choice for select_multiple")
             ELSE None
        ELSE IF question_type = t_date
        THEN IF date_pattern(v) \/ strptime_date(v)
             THEN None ELSE Some("is not a valid date")
        ELSE IF question_type = t_time
        THEN IF time_pattern(v) THEN None ELSE Some("is not a valid time")
        ELSE None

\* None when the value passes, Some(message) otherwise
_validate_type(value, question_type, list_name) ==
    LET v == IF value.t # "str" THEN PyStr(value) ELSE value.s
    IN  IF question_type = t_integer
        THEN IF IntLiteral(v) THEN None ELSE Some("is not a valid integer")
        ELSE IF question_type = t_decimal
        THEN IF FloatLiteral(v) THEN None ELSE Some("is not a valid decimal")
        ELSE IF StartsWith(question_type, t_select_one)
        THEN IF KnownList(list_name)
                /\ Lower(v) \notin ChoicesLower(list_name.v)
                /\ Lower(v) \notin AliasesLower(list_name.v)
             THEN Some("is not a valid choice for select_one")
             ELSE None
        ELSE IF StartsWith(question_type, t_select_multiple)
        THEN IF KnownList(list_name)
                /\ \E i \in 1..Len(Split(v)) :
                      /\ Lower(Strip(Split(v)[i])) \notin ChoicesLower(list_name.v)
                      /\ Lower(Strip(Split(v)[i])) \notin AliasesLower(list_name.v)
             THEN Some("is not a valid choice for select_multiple")
             ELSE None
        ELSE IF question_type = t_date
        THEN IF date_pattern(v) \/ strptime_date(v)
             THEN None ELSE Some("is not a valid date")
        ELSE IF question_type = t_time
        THEN IF time_pattern(v) THEN None ELSE Some("is not a valid time")
        ELSE None

(***************************************************************************)
(* Constraint check. A constraint string is held in parsed form:           *)
(*   [dialect |-> "regex", pattern |-> p]  for  regex(., '<pattern>')      *)
(*   [dialect |-> "xpath", expr |-> e]     for any other text              *)
(* A pattern p stands for the text  ^?(?<cls>{<width>})?$?  where cls is   *)
(* "[0-9]", "\\d", "[a-z]" or one literal digit; an expression e is        *)
(*   [op |-> "<", rhs |-> k], [op |-> "and", l |-> e1, r |-> e2], ... or   *)
(*   [op |-> "invalid"] for a text the XPath parser rejects.               *)
(***************************************************************************)
RegexConstraint(p) == [dialect |-> "regex", pattern |-> p]

XPathConstraint(e) == [dialect |-> "xpath", expr |-> e]

\* int(value) of an int, a float (truncation toward zero) or an int literal
PyInt(value) ==
    CASE value.t = "int" -> value.n
      [] value.t = "float" ->
            IF value.n >= 0 THEN value.n \div 10 ELSE -((-value.n) \div 10)
      [] value.t = "str" ->
            LET s == Strip(value.s)
            IN  IF s # <<>> /\ Head(s) = "-"
                THEN -DigitsToNat(Unsigned(s), 0)
                ELSE DigitsToNat(Unsigned(s), 0)

\* the number a mantissa denotes, in tenths (further digits are cut)
MantissaTenths(s) ==
    LET p == DotSplit(s)
        whole == IF p[1] = <<>> THEN 0 ELSE DigitsToNat(p[1], 0)
        frac == IF p[2] = <<>> THEN 0 ELSE DigitVal(p[2][1])
    IN  10 * whole + frac

\* float(value), in tenths, of an int, a float or a mantissa literal
PyFloat(value) ==
    CASE value.t = "int" -> 10 * value.n
      [] value.t = "float" -> value.n
      [] value.t = "str" ->
            LET s == Strip(value.s)
            IN  IF s # <<>> /\ Head(s) = "-"
                THEN -MantissaTenths(Unsigned(s))
                ELSE MantissaTenths(Unsigned(s))

\* XPath number() of a string, in tenths: None stands for NaN
XPathNumber(s) ==
    LET u == Strip(s)
        neg == u # <<>> /\ Head(u) = "-"
        m == IF neg THEN Tail(u) ELSE u
    IN  IF Mantissa(m)
        THEN Some(IF neg THEN -MantissaTenths(m) ELSE MantissaTenths(m))
        ELSE None

\* the value of an expression with "." bound to a node whose text is `text`
RECURSIVE XPathEval(_, _)
XPathEval(e, text) ==
    LET x == XPathNumber(text)
    IN  CASE e.op = "and" -> XPathEval(e.l, text) /\ XPathEval(e.r, text)
          [] e.op = "or" -> XPathEval(e.l, text) \/ XPathEval(e.r, text)
          [] e.op = "<" -> x.some /\ x.v < 10 * e.rhs
          [] e.op = "<=" -> x.some /\ x.v <= 10 * e.rhs
          [] e.op = ">" -> x.some /\ x.v > 10 * e.rhs
          [] e.op = ">=" -> x.some /\ x.v >= 10 * e.rhs
          [] e.op = "=" -> x.some /\ x.v = 10 * e.rhs
          [] e.op = "!=" -> ~x.some \/ x.v # 10 * e.rhs

\* a parse or evaluation exception gives False
_evaluate_xpath_constraint(expression, value) ==
    IF expression.op = "invalid" THEN FALSE
    ELSE XPathEval(expression, PyStr(value))

\* re.search(r'^\^?\(?(\[0-9\]|\d)\{(\d+)\}', pattern_str): the class must be
\* the text [0-9] or a digit character
digit_match(pattern) == pattern.cls = <<"[", "0", "-", "9", "]">> \/ AllDigits(pattern.cls)

\* f"{k:0{width}d}"
RECURSIVE ZeroPad(_, _)
ZeroPad(s, width) == IF Len(s) >= width THEN s ELSE ZeroPad(<<"0">> \o s, width)

FormatPadded(k, width) ==
    IF k < 0 THEN <<"-">> \o ZeroPad(NatToStr(-k), width - 1)
    ELSE ZeroPad(NatToStr(k), width)

\* the characters the class of a pattern accepts
ClassChars(cls) ==
    IF cls \in {<<"[", "0", "-", "9", "]">>, <<"\\", "d">>} THEN Digits
    ELSE IF cls = <<"[", "a", "-", "z", "]">>
    THEN {"a", "b", "c", "d", "e", "f", "g", "h", "i", "j", "k", "l", "m",
          "n", "o", "p", "q", "r", "s", "t", "u", "v", "w", "x", "y", "z"}
    ELSE {cls[1]}

\* re.match(pattern_str, str_value)
re_match(pattern, s) ==
    /\ Len(s) >= pattern.width
    /\ \A i \in 1..pattern.width : s[i] \in ClassChars(pattern.cls)
    /\ pattern.dollar => Len(s) = pattern.width

\* None when the constraint holds, Some(message) otherwise
_validate_constraint(value, constraint, q_name) ==
    IF constraint.dialect = "regex"
    THEN LET pattern == constraint.pattern
             str_value ==
                 IF value.t \in {"int", "float"}
                 THEN IF digit_match(pattern)
                      THEN FormatPadded(PyInt(value), pattern.width)
                      ELSE IF value.t = "int" \/ value.n % 10 = 0
                           THEN IntToStr(PyInt(value))
                           ELSE PyStr(value)
                 ELSE PyStr(value)
         IN  IF ~pattern.valid THEN Some("Invalid regex pattern in constraint")
             ELSE IF re_match(pattern, str_value) THEN None
             ELSE Some("Constraint is not satisfied")
    ELSE LET qt == IF q_name \in DOMAIN question_types
                   THEN question_types[q_name] ELSE <<>>
         IN  IF qt = t_integer /\ (\/ value.t = "nan"
                                   \/ value.t = "str" /\ ~IntLiteral(value.s))
             THEN Some("Cannot validate constraint for non-integer value")
             ELSE IF qt = t_decimal /\ value.t = "str" /\ ~FloatLiteral(value.s)
             THEN Some("Cannot validate constraint for non-decimal value")
             ELSE LET processed_value ==
                          IF qt = t_integer THEN PyI(PyInt(value))
                          ELSE IF qt = t_decimal /\ value.t \notin {"nan", "inf"}
                          THEN PyF(PyFloat(value))
                          ELSE value
                  IN  IF _evaluate_xpath_constraint(constraint.expr, processed_value)
                      THEN None
                      ELSE Some("Constraint is not satisfied")

\* the exception that leaves _validate_constraint, "none" when it returns:
\* int() and float() raise TypeError for a Timestamp and int() raises
\* OverflowError for inf, and the handlers around them catch ValueError (the
\* coercion) and re.error (the regex branch) only
_validate_constraint_raises(value, constraint, q_name) ==
    LET qt == IF q_name \in DOMAIN question_types
              THEN question_types[q_name] ELSE <<>>
    IN  IF constraint.dialect = "regex"
        THEN IF value.t = "inf" THEN "OverflowError" ELSE "none"
        ELSE IF qt = t_integer /\ value.t = "datetime" THEN "TypeError"
        ELSE IF qt = t_integer /\ value.t = "inf" THEN "OverflowError"
        ELSE IF qt = t_decimal /\ value.t = "datetime" THEN "TypeError"
        ELSE "none"

(***************************************************************************)
(* The tabular source. A sheet is [header |-> <<h1, ...>>, rows |-> <<r1,  *)
(* ...>>], each row one raw cell per header; a raw cell is Empty, an int,  *)
(* a float or a str.                                                       *)
(***************************************************************************)
Empty == [t |-> "empty"]

\* trailing rows without any value are not part of the sheet's data
RECURSIVE TrimRows(_)
TrimRows(rows) ==
    IF rows # <<>> /\ \A i \in 1..Len(rows[Len(rows)]) : rows[Len(rows)][i] = Empty
    THEN TrimRows(SubSeq(rows, 1, Len(rows) - 1))
    ELSE rows

\* a repeated header gets the suffix ".1", ".2", ...
DedupHeader(header, i) ==
    LET before == Cardinality({j \in 1..(i - 1) : header[j] = header[i]})
    IN  IF before = 0 THEN header[i] ELSE header[i] \o <<".">> \o NatToStr(before)

\* the values of one column as pandas holds them: a column with a str keeps
\* its ints (dtype object), a column of ints only stays int64, any other
\* column is float64, so its ints become floats; an empty cell is NaN
ColumnValues(cells) ==
    LET idx == 1..Len(cells)
        anyStr == \E i \in idx : cells[i].t = "str"
        allInt == \A i \in idx : cells[i].t = "int"
    IN  [i \in idx |->
            IF cells[i] = Empty THEN NaN
            ELSE IF cells[i].t = "int" /\ ~anyStr /\ ~allInt
            THEN PyF(10 * cells[i].n)
            ELSE cells[i]]

\* df = pd.read_excel(memory_file)
read_excel(s) ==
    LET rows == TrimRows(s.rows)
    IN  [columns |-> [i \in 1..Len(s.header) |-> DedupHeader(s.header, i)],
         data |-> [i \in 1..Len(s.header) |->
                      ColumnValues([r \in 1..Len(rows) |-> rows[r][i]])]]

(***************************************************************************)
(* validate_spreadsheet and _validate_spreadsheet_data.                    *)
(***************************************************************************)
ERROR_TYPE_MISMATCH == "type_mismatch"

ERROR_CONSTRAINT_UNSATISFIED == "error_constraint_unsatisfied"

ERROR_VALUE_REQUIRED == "error_value_required"

\* faulty variant: the line is the 1-based index of the data row
ErrorRecord_line_off_by_one(line, column, error_type, error_explanation, q_name) ==
    [line |-> IF line > 1 THEN line - 1 ELSE line, column |-> column,
     error_type |-> error_type, error_explanation |-> error_explanation,
     question_name |-> q_name]

ErrorRecord(line, column, error_type, error_explanation, q_name) ==
    [line |-> line, column |-> column, error_type |-> error_type,
     error_explanation |-> error_explanation, question_name |-> q_name]

\* the errors of the columns from position i (1-based) on
RECURSIVE HeaderErrorsFrom(_, _)
HeaderErrorsFrom(columns, i) ==
    IF i > Len(columns) THEN <<>>
    ELSE (IF _resolve_column_to_question_name(columns[i]) = None
          THEN <<ErrorRecord(1, i, ERROR_TYPE_MISMATCH,
                             "Column header does not match any question name or label",
                             columns[i])>>
          ELSE <<>>)
         \o HeaderErrorsFrom(columns, i + 1)

\* faulty variant: only the first unresolved header is reported
_validate_headers_first_only(columns) ==
    IF HeaderErrorsFrom(columns, 1) = <<>> THEN <<>>
    ELSE <<Head(HeaderErrorsFrom(columns, 1))>>

_validate_headers(columns) == HeaderErrorsFrom(columns, 1)

\* faulty variant: the constraint is checked even when the type check failed
CellErrors_no_short_circuit(value, q_name, c, r) ==
    IF isna(value)
    THEN IF q_name \in required_questions
         THEN <<ErrorRecord(r + 2, c + 1, ERROR_VALUE_REQUIRED,
                            "Value is required", q_name)>>
         ELSE <<>>
    ELSE (IF _validate_type(value, question_types[q_name],
                            _extract_list_name(question_types[q_name])) # None
          THEN <<ErrorRecord(r + 2, c + 1, ERROR_TYPE_MISMATCH,
                             "type", q_name)>>
          ELSE <<>>)
         \o (IF q_name \in DOMAIN question_constraints
                /\ _validate_constraint(value, question_constraints[q_name],
                                        q_name) # None
             THEN <<ErrorRecord(r + 2, c + 1, ERROR_CONSTRAINT_UNSATISFIED,
                                "constraint", q_name)>>
             ELSE <<>>)

\* the body of the row loop for one cell: the errors it appends
\* (c and r are the 0-based col_idx and row_idx)
CellErrors(value, q_name, c, r) ==
    LET question_type == question_types[q_name]
    IN  IF isna(value)
        THEN IF q_name \in required_questions
             THEN <<ErrorRecord(r + 2, c + 1, ERROR_VALUE_REQUIRED,
                                "Value is required", q_name)>>
             ELSE <<>>
        ELSE LET type_error ==
                     _validate_type(value, question_type,
                                    _extract_list_name(question_type))
             IN  IF type_error # None
                 THEN <<ErrorRecord(r + 2, c + 1, ERROR_TYPE_MISMATCH,
                                    type_error.v, q_name)>>
                 ELSE IF q_name \in DOMAIN question_constraints
                 THEN LET constraint_error ==
                              _validate_constraint(value,
                                  question_constraints[q_name], q_name)
                      IN  IF constraint_error # None
                          THEN <<ErrorRecord(r + 2, c + 1,
                                             ERROR_CONSTRAINT_UNSATISFIED,
                                             constraint_error.v, q_name)>>
                          ELSE <<>>
                 ELSE <<>>

NumRows(d) == IF Len(d.data) = 0 THEN 0 ELSE Len(d.data[1])

\* faulty variant: the column loop ends after its first column
NextScannedColumn_first_only(d, c) ==
    IF c = 0 /\ Len(d.columns) > 0 /\ NumRows(d) > 0 THEN 0 ELSE Len(d.columns)

\* the first column at 0-based position c or later whose loop body runs the
\* row loop at least once; Len(columns) when the column loop is over
RECURSIVE NextScannedColumn(_, _)
NextScannedColumn(d, c) ==
    IF c >= Len(d.columns) THEN Len(d.columns)
    ELSE IF _resolve_column_to_question_name(d.columns[c + 1]) # None
            /\ NumRows(d) > 0
    THEN c
    ELSE NextScannedColumn(d, c + 1)

\* a file pd.read_excel can read; reading any other file raises
Readable(s) == "rows" \in DOMAIN s

\* the one error of the result validate_spreadsheet builds from an exception
ParsingError ==
    [line |-> 0, column |-> 0, error_type |-> "error_parsing",
     error_explanation |-> "Error parsing spreadsheet", question_name |-> <<>>]

\* validate_spreadsheet(spreadsheet_file), called without xlsform_data as the
\* view calls it, up to the header check of _validate_spreadsheet_data: the
\* file is read, the headers are checked, and unresolved headers end the scan;
\* an exception of the reading ends the call with the parsing error
validate_spreadsheet ==
    /\ pc = "parsed"
    /\ IF ~Readable(sheet)
       THEN /\ result' = [is_valid |-> FALSE, errors |-> <<ParsingError>>]
            /\ pc' = "done"
            /\ UNCHANGED <<df, errors, col_idx, row_idx, question_name>>
       ELSE LET d == read_excel(sheet)
                header_errors == _validate_headers(d.columns)
                first == NextScannedColumn(d, 0)
            IN  /\ df' = d
                /\ errors' = header_errors
                /\ UNCHANGED result
                /\ IF header_errors # <<>>
                   THEN /\ pc' = "return"
                        /\ UNCHANGED <<col_idx, row_idx, question_name>>
                   ELSE /\ col_idx' = first
                        /\ row_idx' = 0
                        /\ question_name' =
                               IF first < Len(d.columns)
                               THEN _resolve_column_to_question_name(d.columns[first + 1])
                               ELSE None
                        /\ pc' = IF first < Len(d.columns) THEN "scan" ELSE "return"
    /\ UNCHANGED <<survey, schema_vars, sheet, call, ret>>
    /\ UNCHANGED ext_vars

\* faulty variant: the rows are the outer loop and the columns the inner one
scan_cell_row_major ==
    /\ pc = "scan"
    /\ errors' = errors \o CellErrors(df.data[col_idx + 1][row_idx + 1],
                                      question_name.v, col_idx, row_idx)
    /\ IF col_idx + 1 < Len(df.columns)
       THEN /\ col_idx' = col_idx + 1
            /\ question_name' = _resolve_column_to_question_name(df.columns[col_idx + 2])
            /\ UNCHANGED <<row_idx, pc>>
       ELSE IF row_idx + 1 < NumRows(df)
       THEN /\ col_idx' = 0
            /\ row_idx' = row_idx + 1
            /\ question_name' = _resolve_column_to_question_name(df.columns[1])
            /\ UNCHANGED pc
       ELSE /\ pc' = "return"
            /\ UNCHANGED <<col_idx, row_idx, question_name>>
    /\ UNCHANGED <<survey, schema_vars, sheet, df, result, call, ret>>
    /\ UNCHANGED ext_vars

\* one iteration of the row loop, for the cell (col_idx, row_idx), then the
\* move to the next row, or to the next column when the rows are exhausted
scan_cell ==
    /\ pc = "scan"
    /\ LET value == df.data[col_idx + 1][row_idx + 1]
           next == NextScannedColumn(df, col_idx + 1)
       IN  /\ errors' = errors \o CellErrors(value, question_name.v, col_idx, row_idx)
           /\ IF row_idx + 1 < NumRows(df)
              THEN /\ row_idx' = row_idx + 1
                   /\ UNCHANGED <<col_idx, question_name, pc>>
              ELSE /\ col_idx' = next
                   /\ row_idx' = 0
                   /\ question_name' =
                          IF next < Len(df.columns)
                          THEN _resolve_column_to_question_name(df.columns[next + 1])
                          ELSE None
                   /\ pc' = IF next < Len(df.columns) THEN "scan" ELSE "return"
    /\ UNCHANGED <<survey, schema_vars, sheet, df, result, call, ret>>
    /\ UNCHANGED ext_vars

\* faulty variant: returning the result drops the labels of the schema
return_result_forgets_labels ==
    /\ pc = "return"
    /\ result' = IF errors # <<>>
                 THEN [is_valid |-> FALSE, errors |-> errors]
                 ELSE [is_valid |-> TRUE]
    /\ question_labels' = EmptyDict
    /\ pc' = "done"
    /\ UNCHANGED <<survey, question_types, question_constraints,
                   required_questions, choice_lists, choice_aliases,
                   data_instance_template, sheet, df,
                   errors, col_idx, row_idx, question_name, call, ret>>
    /\ UNCHANGED ext_vars

\* return errors; validate_spreadsheet builds its result from them
return_result ==
    /\ pc = "return"
    /\ result' = IF errors # <<>>
                 THEN [is_valid |-> FALSE, errors |-> errors]
                 ELSE [is_valid |-> TRUE]
    /\ pc' = "done"
    /\ UNCHANGED <<survey, schema_vars, sheet, df, errors, col_idx, row_idx,
                   question_name, call, ret>>
    /\ UNCHANGED ext_vars

(***************************************************************************)
(* Inputs: strings, forms, sheets.                                         *)
(***************************************************************************)
s_age == <<"a", "g", "e">>

s_Age == <<"A", "g", "e">>

s_AGE == <<"A", "G", "E">>

s_ag == <<"a", "g">>

s_status == <<"s", "t", "a", "t", "u", "s">>

s_Status == <<"S", "t", "a", "t", "u", "s">>

s_gender == <<"g", "e", "n", "d", "e", "r">>

s_Gender == <<"G", "e", "n", "d", "e", "r">>

s_tags == <<"t", "a", "g", "s">>

s_when == <<"w", "h", "e", "n">>

s_at == <<"a", "t">>

s_weight == <<"w", "e", "i", "g", "h", "t">>

s_note == <<"n", "o", "t", "e">>

s_zzz == <<"z", "z", "z">>

s_grp == <<"g", "r", "p">>

s_no == <<"n", "o">>

t_text == <<"t", "e", "x", "t">>

t_select_one_gender == <<"s", "e", "l", "e", "c", "t", "_", "o", "n", "e", " ", "g", "e", "n", "d", "e", "r">>

t_select_one_status == <<"s", "e", "l", "e", "c", "t", "_", "o", "n", "e", " ", "s", "t", "a", "t", "u", "s">>

t_select_multiple_gender == <<"s", "e", "l", "e", "c", "t", "_", "m", "u", "l", "t", "i", "p", "l", "e", " ", "g", "e", "n", "d", "e", "r">>

v_male == <<"m", "a", "l", "e">>

v_MALE == <<"M", "A", "L", "E">>

v_man == <<"m", "a", "n">>

v_MAN == <<"M", "A", "N">>

v_female == <<"f", "e", "m", "a", "l", "e">>

v_unknown == <<"u", "n", "k", "n", "o", "w", "n">>

v_abc == <<"a", "b", "c">>

v_1 == <<"1">>

v_1_0 == <<"1", ".", "0">>

v_30 == <<"3", "0">>

v_30_0 == <<"3", "0", ".", "0">>

v_male_MAN == <<"m", "a", "l", "e", " ", "M", "A", "N">>

v_male_unknown == <<"m", "a", "l", "e", " ", "u", "n", "k", "n", "o", "w", "n">>

v_date == <<"2", "0", "2", "4", "-", "0", "9", "-", "0", "2">>

v_datetime == <<"2", "0", "2", "4", "-", "0", "9", "-", "0", "2", " ", "0", "0", ":", "0", "0", ":", "0", "0">>

v_baddate == <<"2", "0", "2", "4", "-", "0", "2", "-", "3", "0", " ", "0", "0", ":", "0", "0", ":", "0", "0">>

v_time == <<"0", "9", ":", "3", "0">>

Bind(hasRequired, required, hasConstraint, constraint) ==
    [keys |-> (IF hasRequired THEN {"required"} ELSE {})
              \cup (IF hasConstraint THEN {"constraint"} ELSE {}),
     required |-> required, constraint |-> constraint, constraintMsg |-> <<>>]

\* the bind b with "jr:constraintMsg": msg, the custom message of the
\* constraint
BindMsg(b, msg) ==
    [b EXCEPT !.keys = @ \cup {"jr:constraintMsg"}, !.constraintMsg = msg]

\* {"name": value} or {"name": value, "alias": alias}
Choice(value) == [keys |-> {"name"}, name |-> value, alias |-> <<>>]

AliasedChoice(value, alias) ==
    [keys |-> {"name", "alias"}, name |-> value, alias |-> alias]

\* {"name": n, "children": [...], "choices": {...}}: a form whose instance
\* root pyxform names n
NamedForm(n, children, choices) ==
    [keys |-> {"name", "children", "choices"}, name |-> n,
     children |-> children, choices |-> choices]

\* a form with the instance root <data>
Form(children, choices) == NamedForm(s_data, children, choices)

\* the constraint  . < 150
LessThan150 == XPathConstraint([op |-> "<", rhs |-> 150])

\* the constraint  regex(., '^[0-9]{3}$')
ThreeDigits ==
    RegexConstraint([caret |-> TRUE, paren |-> FALSE,
                     cls |-> <<"[", "0", "-", "9", "]">>, width |-> 3,
                     dollar |-> TRUE, valid |-> TRUE])

StatusChoices == [l \in {s_status} |-> <<Choice(PyI(1)), Choice(PyI(2))>>]

GenderChoices ==
    [l \in {s_gender, s_status} |->
        IF l = s_gender
        THEN <<AliasedChoice(PyS(v_male), PyS(v_man)), Choice(PyS(v_female))>>
        ELSE <<Choice(PyI(1)), Choice(PyS(v_30))>>]

\* age: integer, required, . < 150; status: select_one status, required
FormA ==
    Form(<<Question(s_age, t_integer, TRUE, s_Age, TRUE,
                    Bind(TRUE, s_yes, TRUE, LessThan150)),
           Question(s_status, t_select_one_status, TRUE, s_Status, TRUE,
                    Bind(TRUE, s_yes, FALSE, <<>>))>>,
         StatusChoices)

\* a group holding age: integer without bind; status: text with a regex
FormB ==
    Form(<<Group(s_grp, <<Question(s_age, t_integer, TRUE, s_Age, FALSE, NoBind)>>),
           Question(s_status, t_text, FALSE, <<>>, TRUE,
                    Bind(TRUE, s_no, TRUE, ThreeDigits))>>,
         StatusChoices)

Surveys == {FormA, FormB}

HeaderRows ==
    {<<s_age>>, <<s_Status>>, <<s_zzz>>,
     <<s_age, s_status>>, <<s_status, s_Age>>,
     <<s_zzz, s_AGE>>, <<s_age, s_age>>}

Cells == {Empty, PyI(1), PyI(200), PyS(v_abc)}

Sheets ==
    UNION {{[header |-> h, rows |-> rows] :
               rows \in UNION {[1..n -> [1..Len(h) -> Cells]] : n \in 0..MaxRows}} :
           h \in HeaderRows}

NoSheet == [header |-> <<>>, rows |-> <<>>]

NoCall == [method |-> "none"]

\* before Popen: no process, no timer
NoProc == [state |-> "none"]

NoTimer == [state |-> "none", fired_on |-> "none"]

\* before generate_xml_from_spreadsheet is called: no generator
NoGenerator == [state |-> "none"]

InitIdle ==
    /\ proc = NoProc
    /\ watchdog = NoTimer
    /\ kill_check = FALSE
    /\ signals = <<>>
    /\ popen_result = None
    /\ gen = NoGenerator
    /\ consumed = <<>>
    /\ request = None
    /\ response = None
    /\ session = EmptyDict
    /\ tries = 0
    /\ attempts = 0

(***************************************************************************)
(* Specification of one validation run: a form is parsed, then a sheet is  *)
(* validated.                                                              *)
(***************************************************************************)
InitValidator ==
    /\ question_types = EmptyDict
    /\ question_constraints = EmptyDict
    /\ required_questions = {}
    /\ choice_lists = EmptyDict
    /\ question_labels = EmptyDict
    /\ choice_aliases = EmptyDict
    /\ data_instance_template = None
    /\ df = [columns |-> <<>>, data |-> <<>>]
    /\ errors = <<>>
    /\ col_idx = 0
    /\ row_idx = 0
    /\ question_name = None
    /\ result = None
    /\ pc = "new"
    /\ call = NoCall
    /\ ret = None

Init ==
    /\ survey \in Surveys
    /\ sheet \in Sheets
    /\ InitValidator
    /\ InitIdle

Next ==
    \/ parse_xlsform
    \/ validate_spreadsheet
    \/ scan_cell
    \/ return_result

Spec == Init /\ [][Next]_vars

(***************************************************************************)
(* Properties of the validation run.                                       *)
(***************************************************************************)
\* the 1-based positions of the headers that are neither a name nor a label
UnresolvedHeaders ==
    {i \in 1..Len(df.columns) :
        /\ df.columns[i] \notin DOMAIN question_types
        /\ df.columns[i] \notin DOMAIN question_labels}

\* the question a resolvable header stands for
HeaderQuestion(i) ==
    IF df.columns[i] \in DOMAIN question_types THEN df.columns[i]
    ELSE question_labels[df.columns[i]]

\* the cells (0-based column, 0-based row) for which the cell checks report an error
FailingCells ==
    {cr \in (0..(Len(df.columns) - 1)) \X (0..(NumRows(df) - 1)) :
        CellErrors(df.data[cr[1] + 1][cr[2] + 1], HeaderQuestion(cr[1] + 1),
                   cr[1], cr[2]) # <<>>}

ErrorsAt(line, column) ==
    {k \in 1..Len(errors) : errors[k].line = line /\ errors[k].column = column}

Scanned == pc \in {"return", "done"}

\* C1: when a header resolves to no question the error list holds exactly one
\* error per unresolved header, at line 1 and the header's 1-based column, and
\* no error of a data cell, whatever the data rows hold; no cell is scanned.
C1_HeaderAbort ==
    (pc \in {"scan", "return", "done"} /\ UnresolvedHeaders # {}) =>
        /\ pc # "scan"
        /\ Len(errors) = Cardinality(UnresolvedHeaders)
        /\ \A i \in UnresolvedHeaders : Cardinality(ErrorsAt(1, i)) = 1
        /\ \A k \in 1..Len(errors) : errors[k].line = 1
        /\ pc = "done" => result = [is_valid |-> FALSE, errors |-> errors]

\* C1 witness: a run over two data rows with a bad cell ended with the single
\* error of the one unresolved header.
C1_Witness ==
    /\ pc = "done"
    /\ Cardinality(UnresolvedHeaders) = 1
    /\ NumRows(df) = 2
    /\ df.data[1][1] = PyS(v_abc)
    /\ Len(result.errors) = 1

C3_FirstFailingCheck ==
    (Scanned /\ UnresolvedHeaders = {}) =>
        \A c \in 0..(Len(df.columns) - 1), r \in 0..(NumRows(df) - 1) :
            LET value == df.data[c + 1][r + 1]
                q == HeaderQuestion(c + 1)
                qt == question_types[q]
                got == {errors[k].error_type : k \in ErrorsAt(r + 2, c + 1)}
                typeFails == _validate_type(value, qt, _extract_list_name(qt)) # None
            IN  /\ Cardinality(ErrorsAt(r + 2, c + 1)) <= 1
                /\ isna(value) =>
                      got = IF q \in required_questions
                            THEN {ERROR_VALUE_REQUIRED} ELSE {}
                /\ (~isna(value) /\ typeFails) => got = {ERROR_TYPE_MISMATCH}
                /\ (~isna(value) /\ ~typeFails) =>
                      got = IF /\ q \in DOMAIN question_constraints
                               /\ _validate_constraint(value,
                                      question_constraints[q], q) # None
                            THEN {ERROR_CONSTRAINT_UNSATISFIED} ELSE {}

\* C3 witness: one run met a required empty cell and a cell that fails both the
\* type check and the constraint and reported one error for each.
C3_Witness ==
    /\ pc = "done"
    /\ UnresolvedHeaders = {}
    /\ \E c \in 0..(Len(df.columns) - 1), r1, r2 \in 0..(NumRows(df) - 1) :
          LET q == HeaderQuestion(c + 1)
          IN  /\ isna(df.data[c + 1][r1 + 1])
              /\ q \in required_questions
              /\ df.data[c + 1][r2 + 1] = PyS(v_abc)
              /\ question_types[q] = t_integer
              /\ q \in DOMAIN question_constraints
              /\ _validate_constraint(PyS(v_abc), question_constraints[q], q) # None
              /\ Cardinality(ErrorsAt(r2 + 2, c + 1)) = 1

\* C4: an error of a data cell carries line = 0-based row index + 2 and column =
\* 0-based column index + 1: it names the question of that column and the cell
\* at that place is the failing one; the first data row is line 2.
C4_CellErrorPosition ==
    UnresolvedHeaders = {} =>
        \A k \in 1..Len(errors) :
            /\ errors[k].line >= 2
            /\ errors[k].column >= 1
            /\ \E c \in 0..(Len(df.columns) - 1), r \in 0..(NumRows(df) - 1) :
                  /\ errors[k].line = r + 2
                  /\ errors[k].column = c + 1
                  /\ errors[k].question_name = HeaderQuestion(c + 1)
                  /\ <<c, r>> \in FailingCells
                  /\ errors[k].error_type = ERROR_VALUE_REQUIRED
                        <=> isna(df.data[c + 1][r + 1])

\* C4 witness: the only failing cell is in the first data row and the second
\* column, and its error is at line 2, column 2.
C4_Witness ==
    /\ pc = "done"
    /\ UnresolvedHeaders = {}
    /\ FailingCells = {<<1, 0>>}
    /\ NumRows(df) = 2
    /\ Len(errors) = 1
    /\ errors[1].line = 2
    /\ errors[1].column = 2

MaxQuestions == 2

ResolveLabels == {<<FALSE, <<>>>>, <<TRUE, s_Age>>, <<TRUE, s_age>>, <<TRUE, s_Gender>>}

ResolveQuestions ==
    {Question(n, t_integer, l[1], l[2], FALSE, NoBind) :
        n \in {s_age, s_Age}, l \in ResolveLabels}

ResolveNodes == ResolveQuestions \cup {Group(s_grp, <<q>>) : q \in ResolveQuestions}

ResolveSurveys ==
    {Form(children, EmptyDict) :
        children \in UNION {[1..n -> ResolveNodes] : n \in 1..MaxQuestions}}

Headers == {s_age, s_Age, s_AGE, s_ag, s_Gender, s_gender, s_zzz}

resolve_column ==
    /\ pc = "parsed"
    /\ \E column \in Headers :
          /\ call' = [method |-> "_resolve_column_to_question_name", column |-> column]
          /\ ret' = _resolve_column_to_question_name(column)
    /\ pc' = "returned"
    /\ UNCHANGED <<survey, schema_vars, scan_vars>>
    /\ UNCHANGED ext_vars

InitResolve ==
    /\ survey \in ResolveSurveys
    /\ sheet = NoSheet
    /\ InitValidator
    /\ InitIdle

NextResolve ==
    \/ parse_xlsform
    \/ resolve_column

SpecResolve == InitResolve /\ [][NextResolve]_vars

\* the question nodes of a form in document order, groups and meta opened
RECURSIVE FormQuestionsOf(_)
FormQuestionsOf(children) ==
    IF children = <<>> THEN <<>>
    ELSE LET node == Head(children)
         IN  (IF node.name = s_meta \/ node.type = t_group
              THEN FormQuestionsOf(node.children)
              ELSE <<node>>)
             \o FormQuestionsOf(Tail(children))

FormQuestions == FormQuestionsOf(survey.children)

Labelled(q, label) == "label" \in q.keys /\ q.label = label

Resolved == pc = "returned" /\ call.method = "_resolve_column_to_question_name"

\* C6: a header that is exactly a question name resolves to itself, otherwise a
\* header that is exactly a label resolves to the question registered under
\* that label, otherwise to None; a name match wins over a label match and a
\* partial or case-folded match resolves nothing.
C6_ResolveNameThenLabel ==
    Resolved =>
        LET qs == FormQuestions
            isName == \E i \in 1..Len(qs) : qs[i].name = call.column
            isLabel == \E i \in 1..Len(qs) : Labelled(qs[i], call.column)
        IN  /\ isName => ret = Some(call.column)
            /\ (~isName /\ isLabel) =>
                  /\ ret = Some(question_labels[call.column])
                  /\ \E i \in 1..Len(qs) :
                        Labelled(qs[i], call.column) /\ qs[i].name = ret.v
            /\ (~isName /\ ~isLabel) => ret = None

\* C6 witness: the header is the name of one question and the label of another
\* one, and resolves to itself.
C6_Witness ==
    /\ Resolved
    /\ \E i, j \in 1..Len(FormQuestions) :
          /\ FormQuestions[i].name = call.column
          /\ Labelled(FormQuestions[j], call.column)
          /\ FormQuestions[j].name # call.column
    /\ ret = Some(call.column)

\* C7 as stated: for every question q with a label L, the header L and the
\* header q's name both resolve to q, in every schema.
C7_LabelAndNameAgree ==
    Resolved =>
        \A i \in 1..Len(FormQuestions) :
            LET q == FormQuestions[i]
            IN  "label" \in q.keys =>
                    /\ call.column = q.name => ret = Some(q.name)
                    /\ call.column = q.label => ret = Some(q.name)

\* C7 amended: the header q's name resolves to q, and the header L resolves to
\* q provided L is not the name of a different question and no later question
\* of another name carries the label L.
C7_LabelAndNameAgreeWhenUnambiguous ==
    Resolved =>
        \A i \in 1..Len(FormQuestions) :
            LET q == FormQuestions[i]
                unambiguous ==
                    /\ \A j \in 1..Len(FormQuestions) :
                          FormQuestions[j].name = q.label => q.name = q.label
                    /\ \A j \in (i + 1)..Len(FormQuestions) :
                          Labelled(FormQuestions[j], q.label)
                              => FormQuestions[j].name = q.name
            IN  "label" \in q.keys =>
                    /\ call.column = q.name => ret = Some(q.name)
                    /\ (call.column = q.label /\ unambiguous) => ret = Some(q.name)

\* C7 witness: two questions with different names share a label and the label
\* resolved to the later one.
C7_Witness ==
    /\ Resolved
    /\ Len(FormQuestions) = 2
    /\ FormQuestions[1].name # FormQuestions[2].name
    /\ Labelled(FormQuestions[1], call.column)
    /\ Labelled(FormQuestions[2], call.column)
    /\ call.column \notin {FormQuestions[1].name, FormQuestions[2].name}
    /\ ret = Some(FormQuestions[2].name)

(***************************************************************************)
(* Specification of direct calls of _validate_type on the schema of a      *)
(* parsed form.                                                            *)
(***************************************************************************)
\* one question of every type; gender has the alias man for male
TypeFormA ==
    Form(<<Question(s_gender, t_select_one_gender, TRUE, s_Gender, FALSE, NoBind),
           Question(s_tags, t_select_multiple_gender, FALSE, <<>>, FALSE, NoBind),
           Question(s_status, t_select_one_status, FALSE, <<>>, FALSE, NoBind),
           Question(s_age, t_integer, FALSE, <<>>, FALSE, NoBind),
           Question(s_weight, t_decimal, FALSE, <<>>, FALSE, NoBind),
           Question(s_when, t_date, FALSE, <<>>, FALSE, NoBind),
           Question(s_at, t_time, FALSE, <<>>, FALSE, NoBind),
           Question(s_note, t_text, FALSE, <<>>, FALSE, NoBind)>>,
         GenderChoices)

\* the same questions, the list gender without alias, the list status unknown
TypeFormB ==
    Form(TypeFormA.children,
         [l \in {s_gender} |-> <<Choice(PyS(v_male)), Choice(PyS(v_female))>>])

TypeSurveys == {TypeFormA, TypeFormB}

TypeValues ==
    {PyS(v_male), PyS(v_MALE), PyS(v_man), PyS(v_MAN), PyS(v_female),
     PyS(v_unknown), PyS(v_abc), PyS(v_1), PyS(v_1_0), PyS(v_30), PyS(v_30_0),
     PyS(v_male_MAN), PyS(v_male_unknown), PyS(v_date), PyS(v_datetime),
     PyS(v_baddate), PyS(v_time),
     PyI(1), PyI(30), PyF(10), PyF(300), PyF(755)}

validate_type ==
    /\ pc = "parsed"
    /\ \E value \in TypeValues, q \in DOMAIN question_types :
          /\ call' = [method |-> "_validate_type", value |-> value,
                      question_type |-> question_types[q], question_name |-> q,
                      list_name |-> _extract_list_name(question_types[q])]
          /\ ret' = _validate_type(value, question_types[q],
                                   _extract_list_name(question_types[q]))
    /\ pc' = "returned"
    /\ UNCHANGED <<survey, schema_vars, scan_vars>>
    /\ UNCHANGED ext_vars

InitType ==
    /\ survey \in TypeSurveys
    /\ sheet = NoSheet
    /\ InitValidator
    /\ InitIdle

NextType ==
    \/ parse_xlsform
    \/ validate_type

SpecType == InitType /\ [][NextType]_vars

TypeChecked == pc = "returned" /\ call.method = "_validate_type"

\* the lowercased string forms of the canonical values and of the alias keys of
\* a choice list of the form
FormChoiceForms(list) ==
    {Lower(PyStr(survey.choices[list][i].name)) :
        i \in 1..Len(survey.choices[list])}
    \cup {Lower(PyStr(survey.choices[list][i].alias)) :
            i \in {k \in 1..Len(survey.choices[list]) :
                      "alias" \in survey.choices[list][k].keys}}

\* C9: for a select_one question bound to a known choice list a value passes
\* exactly when its lowercased string form is the lowercased form of a
\* canonical value or of an alias key; with canonical male and alias man the
\* values male, MALE, man, MAN pass and unknown does not.
C9_SelectOneCaseAndAlias ==
    (TypeChecked /\ StartsWith(call.question_type, t_select_one)
       /\ call.list_name.some /\ call.list_name.v \in DOMAIN survey.choices) =>
        /\ ret = None <=>
              Lower(PyStr(call.value)) \in FormChoiceForms(call.list_name.v)
        /\ (survey = TypeFormA /\ call.question_name = s_gender) =>
              /\ call.value \in {PyS(v_male), PyS(v_MALE), PyS(v_man), PyS(v_MAN)}
                    => ret = None
              /\ call.value = PyS(v_unknown) => ret # None

\* C9 witness: the upper-case alias MAN passed for the list whose canonical
\* value male has the alias man.
C9_Witness ==
    /\ TypeChecked
    /\ survey = TypeFormA
    /\ call.question_name = s_gender
    /\ call.value = PyS(v_MAN)
    /\ ret = None

(***************************************************************************)
(* Scalar forms of numbers delivered by the tabular source.                *)
(***************************************************************************)
\* the value is an integer: an int, a float without fraction, or integer text
IntegerValued(value) ==
    \/ value.t = "int"
    \/ value.t = "float" /\ value.n % 10 = 0
    \/ value.t = "str" /\ IntLiteral(value.s)

\* the errors of a given type reported for the cell at 0-based (c, r)
CellHasError(c, r, error_type) ==
    \E k \in ErrorsAt(r + 2, c + 1) : errors[k].error_type = error_type

\* C8: a non-empty cell of an integer question whose value is an integer never
\* yields type_mismatch, whether delivered as int, as float (30.0) or as text,
\* and without constraints no cell yields constraint_unsatisfied.
C8_IntegerInAnyScalarForm ==
    UnresolvedHeaders = {} =>
        \A c \in 0..(Len(df.columns) - 1), r \in 0..(NumRows(df) - 1) :
            /\ (/\ question_types[HeaderQuestion(c + 1)] = t_integer
                /\ IntegerValued(df.data[c + 1][r + 1]))
                  => ~CellHasError(c, r, ERROR_TYPE_MISMATCH)
            /\ DOMAIN question_constraints = {}
                  => ~CellHasError(c, r, ERROR_CONSTRAINT_UNSATISFIED)

\* C10: for a choice list whose canonical value is the number 1, a select_one
\* cell holding the number 1 or the text "1" passes, also when the source
\* delivers the number as the float 1.0 because the column has an empty cell.
C10_NumericChoiceInAnyScalarForm ==
    UnresolvedHeaders = {} =>
        \A c \in 0..(Len(df.columns) - 1), r \in 0..(NumRows(df) - 1) :
            (/\ question_types[HeaderQuestion(c + 1)] = t_select_one_status
             /\ \E i \in 1..Len(choice_lists[s_status]) :
                   choice_lists[s_status][i] = PyI(1)
             /\ df.data[c + 1][r + 1] \in {PyI(1), PyF(10), PyS(v_1)})
                => ~CellHasError(c, r, ERROR_TYPE_MISMATCH)

(***************************************************************************)
(* Specification of direct calls of _validate_constraint on the schema of  *)
(* a parsed form.                                                          *)
(***************************************************************************)
v_01234 == <<"0", "1", "2", "3", "4">>

v_1652 == <<"1", "6", "5", "2">>

cls_0_9 == <<"[", "0", "-", "9", "]">>

cls_d == <<"\\", "d">>

cls_a_z == <<"[", "a", "-", "z", "]">>

\* the constraint  regex(., '^([0-9]{5})$')
FiveDigits ==
    RegexConstraint([caret |-> TRUE, paren |-> TRUE, cls |-> cls_0_9,
                     width |-> 5, dollar |-> TRUE, valid |-> TRUE])

\* the constraint  regex(., '^\d{5}$')
FiveDigitsD ==
    RegexConstraint([caret |-> TRUE, paren |-> FALSE, cls |-> cls_d,
                     width |-> 5, dollar |-> TRUE, valid |-> TRUE])

\* the constraint  regex(., '^5{4}')
FourFives ==
    RegexConstraint([caret |-> TRUE, paren |-> FALSE, cls |-> <<"5">>,
                     width |-> 4, dollar |-> FALSE, valid |-> TRUE])

\* the constraint  regex(., '^[a-z]{3}$')
ThreeLetters ==
    RegexConstraint([caret |-> TRUE, paren |-> FALSE, cls |-> cls_a_z,
                     width |-> 3, dollar |-> TRUE, valid |-> TRUE])

\* the constraint  regex(., '^([0-9]{5}$'), which re.compile rejects
UnbalancedPattern ==
    RegexConstraint([caret |-> TRUE, paren |-> TRUE, cls |-> cls_0_9,
                     width |-> 5, dollar |-> TRUE, valid |-> FALSE])

Constraints ==
    {FiveDigits, FiveDigitsD, FourFives, ThreeDigits, ThreeLetters,
     UnbalancedPattern, LessThan150}

ConstraintValues ==
    {PyF(16520), PyF(1230), PyF(555550), PyF(15), PyI(1652), PyI(123),
     PyI(123456), PyI(5555), PyS(v_01234), PyS(v_1652), PyS(v_abc)}

validate_constraint ==
    /\ pc = "parsed"
    /\ \E value \in ConstraintValues, constraint \in Constraints,
          q \in DOMAIN question_types :
          /\ call' = [method |-> "_validate_constraint", value |-> value,
                      constraint |-> constraint, question_name |-> q]
          /\ ret' = _validate_constraint(value, constraint, q)
    /\ pc' = "returned"
    /\ UNCHANGED <<survey, schema_vars, scan_vars>>
    /\ UNCHANGED ext_vars

InitConstraint ==
    /\ survey = TypeFormA
    /\ sheet = NoSheet
    /\ InitValidator
    /\ InitIdle

NextConstraint ==
    \/ parse_xlsform
    \/ validate_constraint

SpecConstraint == InitConstraint /\ [][NextConstraint]_vars

ConstraintChecked == pc = "returned" /\ call.method = "_validate_constraint"

\* C11: under a regex constraint whose pattern starts with [0-9]{N} or \d{N}
\* a numeric value is tested as its integer part zero-padded to N digits, and
\* a text value is tested unchanged; 1652.0 and 123.0 pass ^([0-9]{5})$ and
\* ^\d{5}$, and the text 01234 passes too.
C11_RegexZeroPadding ==
    (/\ ConstraintChecked
     /\ call.constraint.dialect = "regex"
     /\ call.constraint.pattern.valid
     /\ call.constraint.pattern.cls \in {cls_0_9, cls_d}) =>
        LET pattern == call.constraint.pattern
        IN  /\ call.value.t \in {"int", "float"} =>
                  (ret = None <=>
                      re_match(pattern, FormatPadded(PyInt(call.value),
                                                     pattern.width)))
            /\ call.value.t = "str" =>
                  (ret = None <=> re_match(pattern, call.value.s))
            /\ (call.constraint \in {FiveDigits, FiveDigitsD}
                  /\ call.value \in {PyF(16520), PyF(1230), PyS(v_01234)})
                  => ret = None

(***************************************************************************)
(* odk_validate: run_popen_with_timeout and check_xform. Three parties     *)
(* take steps: the calling thread (pc), the timer thread (watchdog) and    *)
(* the external process (proc).                                            *)
(*   proc.state      "running", "zombie" (exited, not yet waited for) or   *)
(*                   "reaped" (communicate() has collected the exit status)*)
(*   watchdog.state  "waiting", "cancelled", "fired" (the interval has     *)
(*                   elapsed, the function starts), "killed" (os.kill has  *)
(*                   returned), "finished", "raised" (os.kill raised)      *)
(*   watchdog.fired_on  the state of the process when the interval elapsed *)
(***************************************************************************)
SIGTERM == 15

SIGSEGV == 11

\* what the process does when left alone: exit 0, exit 1, or die of a signal
ExitCodes == {0, 1, -SIGSEGV}

\* p = Popen(command, ...): the process runs; whether it ignores SIGTERM and
\* how it would end by itself is the process's affair
Popen ==
    /\ pc = "call"
    /\ \E code \in ExitCodes, ignores \in BOOLEAN :
          proc' = [state |-> "running", exit_code |-> code,
                   ignores_term |-> ignores, term_pending |-> FALSE,
                   returncode |-> 0]
    /\ pc' = "popened"
    /\ UNCHANGED <<survey, schema_vars, scan_vars, call, ret, watchdog,
                   kill_check, signals, popen_result>>
    /\ UNCHANGED <<view_vars, readable_vars>>

\* watchdog = threading.Timer(timeout, ...); watchdog.start()
watchdog_start ==
    /\ pc = "popened"
    /\ watchdog' = [state |-> "waiting", fired_on |-> "none"]
    /\ pc' = "communicate"
    /\ UNCHANGED <<survey, schema_vars, scan_vars, call, ret, proc,
                   kill_check, signals, popen_result>>
    /\ UNCHANGED <<view_vars, readable_vars>>

\* (stdout, stderr) = p.communicate(): returns once the process has exited,
\* and waits for it, which sets p.returncode
communicate ==
    /\ pc = "communicate"
    /\ proc.state = "zombie"
    /\ proc' = [proc EXCEPT !.state = "reaped"]
    /\ pc' = "cancel"
    /\ UNCHANGED <<survey, schema_vars, scan_vars, call, ret, watchdog,
                   kill_check, signals, popen_result>>
    /\ UNCHANGED <<view_vars, readable_vars>>

\* watchdog.cancel(): stops the timer only while it is still waiting
watchdog_cancel ==
    /\ pc = "cancel"
    /\ watchdog' = IF watchdog.state = "waiting"
                   THEN [watchdog EXCEPT !.state = "cancelled"]
                   ELSE watchdog
    /\ pc' = "collect"
    /\ UNCHANGED <<survey, schema_vars, scan_vars, call, ret, proc,
                   kill_check, signals, popen_result>>
    /\ UNCHANGED <<view_vars, readable_vars>>

\* timeout = kill_check.is_set(); kill_check.clear(); return PopenResult(...)
return_PopenResult ==
    /\ pc = "collect"
    /\ popen_result' = Some([return_code |-> proc.returncode,
                             timeout |-> kill_check,
                             stdout |-> "stdout", stderr |-> "stderr"])
    /\ kill_check' = FALSE
    /\ pc' = "run_returned"
    /\ UNCHANGED <<survey, schema_vars, scan_vars, call, ret, proc, watchdog,
                   signals>>
    /\ UNCHANGED <<view_vars, readable_vars>>

\* Timer.run: the interval has elapsed and the timer was not cancelled
watchdog_fire ==
    /\ watchdog.state = "waiting"
    /\ watchdog' = [state |-> "fired", fired_on |-> proc.state]
    /\ UNCHANGED <<survey, schema_vars, scan_vars, call, ret, pc, proc,
                   kill_check, signals, popen_result>>
    /\ UNCHANGED <<view_vars, readable_vars>>

\* os.kill(pid, signal.SIGTERM): delivered to a running process or a zombie;
\* for a pid already waited for os.kill raises ProcessLookupError, which ends
\* the timer thread
os_kill ==
    /\ watchdog.state = "fired"
    /\ IF proc.state = "reaped"
       THEN /\ watchdog' = [watchdog EXCEPT !.state = "raised"]
            /\ UNCHANGED <<proc, signals>>
       ELSE /\ signals' = Append(signals, [sig |-> SIGTERM, target |-> proc.state])
            /\ proc' = IF proc.state = "running"
                       THEN [proc EXCEPT !.term_pending = TRUE]
                       ELSE proc
            /\ watchdog' = [watchdog EXCEPT !.state = "killed"]
    /\ UNCHANGED <<survey, schema_vars, scan_vars, call, ret, pc, kill_check,
                   popen_result>>
    /\ UNCHANGED <<view_vars, readable_vars>>

\* kill_check.set()
kill_check_set ==
    /\ watchdog.state = "killed"
    /\ kill_check' = TRUE
    /\ watchdog' = [watchdog EXCEPT !.state = "finished"]
    /\ UNCHANGED <<survey, schema_vars, scan_vars, call, ret, pc, proc,
                   signals, popen_result>>
    /\ UNCHANGED <<view_vars, readable_vars>>

\* the process ends by itself
proc_exit ==
    /\ proc.state = "running"
    /\ proc' = [proc EXCEPT !.state = "zombie", !.returncode = proc.exit_code]
    /\ UNCHANGED <<survey, schema_vars, scan_vars, call, ret, pc, watchdog,
                   kill_check, signals, popen_result>>
    /\ UNCHANGED <<view_vars, readable_vars>>

\* the process dies of the SIGTERM it received, unless it ignores the signal
proc_sigterm ==
    /\ proc.state = "running"
    /\ proc.term_pending
    /\ ~proc.ignores_term
    /\ proc' = [proc EXCEPT !.state = "zombie", !.returncode = -SIGTERM]
    /\ UNCHANGED <<survey, schema_vars, scan_vars, call, ret, pc, watchdog,
                   kill_check, signals, popen_result>>
    /\ UNCHANGED <<view_vars, readable_vars>>

\* what check_xform does with the PopenResult: a returned value or a raised
\* exception
check_xform_outcome(r) ==
    IF r.timeout
    THEN [kind |-> "return", value |-> <<"XForm took to long to completely validate.">>]
    ELSE IF r.return_code > 0
    THEN [kind |-> "raise", exc |-> "ODKValidateError", value |-> r.stderr]
    ELSE IF r.return_code < 0
    THEN [kind |-> "return", value |-> <<"Bad return code from ODK Validate.">>]
    ELSE [kind |-> "return", value |-> r.stdout]

check_xform ==
    /\ pc = "run_returned"
    /\ ret' = Some(check_xform_outcome(popen_result.v))
    /\ pc' = "done"
    /\ UNCHANGED <<survey, schema_vars, scan_vars, call, runner_vars>>
    /\ UNCHANGED <<view_vars, readable_vars>>

InitRunner ==
    /\ survey = Form(<<>>, EmptyDict)
    /\ sheet = NoSheet
    /\ question_types = EmptyDict
    /\ question_constraints = EmptyDict
    /\ required_questions = {}
    /\ choice_lists = EmptyDict
    /\ question_labels = EmptyDict
    /\ choice_aliases = EmptyDict
    /\ data_instance_template = None
    /\ df = [columns |-> <<>>, data |-> <<>>]
    /\ errors = <<>>
    /\ col_idx = 0
    /\ row_idx = 0
    /\ question_name = None
    /\ result = None
    /\ pc = "call"
    /\ call = NoCall
    /\ ret = None
    /\ InitIdle

MainThread ==
    \/ Popen
    \/ watchdog_start
    \/ communicate
    \/ watchdog_cancel
    \/ return_PopenResult
    \/ check_xform

TimerThread ==
    \/ watchdog_fire
    \/ os_kill
    \/ kill_check_set

NextRunner ==
    \/ Popen
    \/ watchdog_start
    \/ communicate
    \/ watchdog_cancel
    \/ return_PopenResult
    \/ check_xform
    \/ watchdog_fire
    \/ os_kill
    \/ kill_check_set
    \/ proc_exit
    \/ proc_sigterm

SpecRunner == InitRunner /\ [][NextRunner]_vars

\* both threads keep running, and a process that does not ignore SIGTERM dies
\* of it; nothing makes a process end by itself
SpecRunnerLive ==
    /\ SpecRunner
    /\ WF_vars(MainThread)
    /\ WF_vars(TimerThread)
    /\ WF_vars(proc_sigterm)

(***************************************************************************)
(* Properties of run_popen_with_timeout and check_xform.                   *)
(***************************************************************************)
RunReturned == popen_result # None

\* C12: when the process was still running as the timeout elapsed, it has been
\* sent the termination signal and the result has timeout = true; when the
\* process exited by itself before the watchdog fired, the watchdog is
\* cancelled, no signal was sent, and the result has timeout = false with
\* return_code equal to the process's exit code.
C12_TimeoutFlagMatchesWatchdog ==
    RunReturned =>
        /\ watchdog.fired_on = "running" =>
              /\ signals # <<>>
              /\ popen_result.v.timeout
        /\ watchdog.fired_on # "running" =>
              /\ watchdog.state = "cancelled"
              /\ signals = <<>>
              /\ ~popen_result.v.timeout
              /\ popen_result.v.return_code = proc.exit_code

\* C27: under every interleaving of the watchdog thread and the main thread
\* the timeout flag of the result says whether the watchdog sent the
\* termination signal: true when it sent it, false when it sent none.
C27_TimeoutFlagIffSignalSent ==
    RunReturned => (popen_result.v.timeout <=> signals # <<>>)

\* what the code guarantees instead for C27: a result with timeout = true
\* comes after the signal, the converse fails when the main thread reads
\* kill_check between os.kill and kill_check.set()
C27_TimeoutFlagImpliesSignal ==
    RunReturned => (popen_result.v.timeout => signals # <<>>)

\* C27 witness: the watchdog sent the signal and the result has timeout =
\* true.
C27_Witness ==
    /\ RunReturned
    /\ signals # <<>>
    /\ popen_result.v.timeout

\* C13: run_popen_with_timeout eventually returns to its caller, whatever the
\* external process does.
C13_RunEventuallyReturns == <>RunReturned

\* C14: a run that timed out, or ended with a negative return code, never
\* makes check_xform return normally as it does for exit code 0; exit code 0
\* without timeout returns normally, a positive exit code without timeout
\* raises ODKValidateError carrying stderr.
C14_TimeoutOrCrashNeverValid ==
    pc = "done" =>
        LET r == popen_result.v
        IN  /\ (r.timeout \/ r.return_code < 0) => ret.v.kind # "return"
            /\ (~r.timeout /\ r.return_code = 0) => ret.v.kind = "return"
            /\ (~r.timeout /\ r.return_code > 0) =>
                  /\ ret.v.kind = "raise"
                  /\ ret.v.exc = "ODKValidateError"
                  /\ ret.v.value = r.stderr

(***************************************************************************)
(* generate_xml_from_spreadsheet, a generator function: the call only      *)
(* creates the generator; its body runs when the consumer asks for the     *)
(* next document. A document is held as the version attribute, the         *)
(* instanceID and the texts written into the elements of the copied        *)
(* template.                                                               *)
(*   gen.state  "created", "validating" (inside validate_spreadsheet),     *)
(*              "suspended" (at the yield), "finished"                     *)
(***************************************************************************)
MaxPasses == 2

v_1_dot_0 == <<"1", ".", "0">>

\* the text written for a cell value
ElementText(value) ==
    IF value.t = "int" \/ (value.t = "float" /\ value.n % 10 = 0)
    THEN IntToStr(PyInt(value))
    ELSE PyStr(value)

\* the loop over row.items() from the column at position c (1-based) on;
\* the row is row r (1-based) of d, root the copy of the template. A column
\* no question resolves is looked up by its lower-cased header.
RECURSIVE FillElements(_, _, _, _, _)
FillElements(root, d, r, c, text) ==
    IF c > Len(d.columns) THEN text
    ELSE LET value == d.data[c][r]
             q == _resolve_column_to_question_name(d.columns[c])
             name == IF q = None THEN Lower(d.columns[c]) ELSE q.v
         IN  IF isna(value) \/ name \notin root.elements
             THEN FillElements(root, d, r, c + 1, text)
             ELSE FillElements(root, d, r, c + 1,
                               Put(text, name, ElementText(value)))

\* not self.data_instance_template: no template, or an element without
\* children
NoTemplate(template) ==
    IF template = None THEN TRUE ELSE template.v.elements = {}

\* ET.tostring(root) with the version attribute and the n-th uuid
Document(root, version, n) ==
    [tag |-> root.tag, version |-> version,
     instanceID |-> IF s_instanceID \in root.elements
                    THEN <<"uuid", n>> ELSE <<>>,
     text |-> root.text]

\* faulty variant: the row is written into the template itself
_generate_xml_for_row_in_place(d, r, version, n) ==
    LET root == data_instance_template.v
        filled == [root EXCEPT !.text = FillElements(root, d, r, 1, root.text)]
    IN  [xml |-> Document(filled, version, n), template |-> Some(filled)]

\* _generate_xml_for_row(row, version) for row r of d, with the n-th uuid:
\* the row is written into a deep copy of the template; xml is the string
\* returned, template what self.data_instance_template holds afterwards
_generate_xml_for_row(d, r, version, n) ==
    LET root == data_instance_template.v
        filled == [root EXCEPT !.text = FillElements(root, d, r, 1, root.text)]
    IN  [xml |-> Document(filled, version, n),
         template |-> data_instance_template]

\* the call: a generator object, none of the body has run
generate_xml_from_spreadsheet ==
    /\ pc \in {"parsed", "done"}
    /\ gen = NoGenerator
    /\ gen' = [state |-> "created", version |-> v_1_dot_0, row |-> 0,
               raised |-> "none", uuids |-> 0]
    /\ pc' = "generator"
    /\ UNCHANGED <<survey, schema_vars, scan_vars, call, ret, runner_vars,
                   readable_vars,
                   consumed, request, response, session>>

\* the first next(): the body starts and calls self.validate_spreadsheet
gen_start ==
    /\ pc = "generator"
    /\ gen.state = "created"
    /\ gen' = [gen EXCEPT !.state = "validating"]
    /\ consumed' = <<<<>>>>
    /\ pc' = "parsed"
    /\ UNCHANGED <<survey, schema_vars, scan_vars, call, ret, runner_vars,
                   readable_vars,
                   request, response, session>>

\* faulty variant: the validation result is not looked at
gen_validated_unchecked ==
    /\ pc = "done"
    /\ gen.state = "validating"
    /\ df' = read_excel(sheet)
    /\ gen' = [gen EXCEPT !.state = "suspended", !.row = 0]
    /\ pc' = "generator"
    /\ UNCHANGED <<survey, schema_vars, sheet, errors, col_idx, row_idx,
                   question_name, result, call, ret, runner_vars,
                   readable_vars, consumed,
                   request, response, session>>

\* validate_spreadsheet has returned: an invalid result raises ValueError out
\* of the generator, a valid one lets the body read the data again
gen_validated ==
    /\ pc = "done"
    /\ gen.state = "validating"
    /\ IF ~result.is_valid
       THEN /\ gen' = [gen EXCEPT !.state = "finished", !.raised = "ValueError"]
            /\ UNCHANGED df
       ELSE /\ df' = read_excel(sheet)
            /\ gen' = [gen EXCEPT !.state = "suspended", !.row = 0]
    /\ pc' = "generator"
    /\ UNCHANGED <<survey, schema_vars, sheet, errors, col_idx, row_idx,
                   question_name, result, call, ret, runner_vars,
                   readable_vars, consumed,
                   request, response, session>>

\* the loop over df.iterrows(): the next row's document is yielded to the
\* consumer, or _generate_xml_for_row raises ValueError for want of a
\* template, or the loop is over and the generator finishes
gen_yield ==
    /\ pc = "generator"
    /\ gen.state = "suspended"
    /\ IF gen.row < NumRows(df)
       THEN IF NoTemplate(data_instance_template)
            THEN /\ gen' = [gen EXCEPT !.state = "finished",
                                       !.raised = "ValueError"]
                 /\ UNCHANGED <<consumed, data_instance_template>>
            ELSE LET out == _generate_xml_for_row(df, gen.row + 1,
                                                  gen.version, gen.uuids)
                 IN  /\ consumed' = [consumed EXCEPT ![Len(consumed)] =
                                         Append(@, out.xml)]
                     /\ data_instance_template' = out.template
                     /\ gen' = [gen EXCEPT !.row = @ + 1, !.uuids = @ + 1]
       ELSE /\ gen' = [gen EXCEPT !.state = "finished"]
            /\ UNCHANGED <<consumed, data_instance_template>>
    /\ UNCHANGED <<survey, question_vars, scan_vars, pc, call, ret,
                   runner_vars, readable_vars, request, response, session>>

\* the consumer iterates over the same generator once more: a finished
\* generator ends the loop at once
iterate_again ==
    /\ pc = "generator"
    /\ gen.state = "finished"
    /\ gen.raised = "none"
    /\ Len(consumed) < MaxPasses
    /\ consumed' = Append(consumed, <<>>)
    /\ UNCHANGED <<survey, schema_vars, scan_vars, pc, call, ret,
                   runner_vars, readable_vars,
                   gen, request, response, session>>

GenHeaderRows == {<<s_age>>, <<s_Age>>, <<s_age, s_status>>, <<s_zzz>>}

GenCells == {Empty, PyI(1), PyI(200)}

GenSheets ==
    UNION {{[header |-> h, rows |-> rows] :
               rows \in UNION {[1..n -> [1..Len(h) -> GenCells]] : n \in 0..MaxRows}} :
           h \in GenHeaderRows}

\* FormA under the instance root <household>
FormH == NamedForm(s_household, FormA.children, FormA.choices)

\* FormB under the instance root <None>
FormN == NamedForm(s_None, FormB.children, FormB.choices)

GenSurveys == Surveys \cup {FormH, FormN}

InitGenerate ==
    /\ survey \in GenSurveys
    /\ sheet \in GenSheets
    /\ InitValidator
    /\ InitIdle

NextGenerate ==
    \/ parse_xlsform
    \/ generate_xml_from_spreadsheet
    \/ gen_start
    \/ validate_spreadsheet
    \/ scan_cell
    \/ return_result
    \/ gen_validated
    \/ gen_yield
    \/ iterate_again

SpecGenerate == InitGenerate /\ [][NextGenerate]_vars

(***************************************************************************)
(* Properties of generate_xml_from_spreadsheet.                            *)
(***************************************************************************)
\* the sheet read into df validates: every header resolves, no cell fails
SheetValidates ==
    IF UnresolvedHeaders # {} THEN FALSE ELSE FailingCells = {}

\* the texts row r (1-based) of df puts into a document: for every question
\* the value of the last column of that question that is not empty
RowTexts(r) ==
    LET filled == {c \in 1..Len(df.columns) : ~isna(df.data[c][r])}
        last(q) == CHOOSE c \in filled :
                      /\ HeaderQuestion(c) = q
                      /\ \A o \in filled : HeaderQuestion(o) = q => o <= c
    IN  [q \in {HeaderQuestion(c) : c \in filled} |->
            ElementText(df.data[last(q)][r])]

\* C15, as stated: with skip_validation at its default the generator yields
\* documents only for a spreadsheet that validates: for an invalid one it
\* raises ValueError and yields nothing, for a valid one it yields one
\* document per data row, in row order.
C15_DocumentsForEveryValidSheet ==
    gen.state \in {"suspended", "finished"} =>
        IF SheetValidates
        THEN /\ gen.raised = "none"
             /\ Len(consumed[1]) = IF gen.state = "finished" THEN NumRows(df)
                                   ELSE gen.row
        ELSE /\ gen.state = "finished"
             /\ gen.raised = "ValueError"
             /\ consumed = <<<<>>>>

\* C15, what the code does: for an invalid spreadsheet the generator raises
\* ValueError and yields nothing; for a valid one it yields one document per
\* data row, in row order, when parse_xlsform found a data instance
\* template, and when it found none a valid spreadsheet with a data row
\* raises ValueError at its first row and yields nothing.
C15_DocumentsOnlyForValidSheet ==
    gen.state \in {"suspended", "finished"} =>
        IF SheetValidates /\ NoTemplate(data_instance_template)
                          /\ NumRows(df) > 0
        THEN /\ gen.state = "finished" => gen.raised = "ValueError"
             /\ gen.raised \in {"none", "ValueError"}
             /\ consumed = <<<<>>>>
        ELSE IF SheetValidates
        THEN /\ gen.raised = "none"
             /\ Len(consumed[1]) = IF gen.state = "finished" THEN NumRows(df)
                                   ELSE gen.row
             /\ \A i \in 1..Len(consumed[1]) :
                   /\ consumed[1][i].text = RowTexts(i)
                   /\ consumed[1][i].version = gen.version
                   /\ consumed[1][i].tag = data_instance_template.v.tag
        ELSE /\ gen.state = "finished"
             /\ gen.raised = "ValueError"
             /\ consumed = <<<<>>>>

\* C15 witness: the generator finished after two documents for the two
\* different rows of a valid sheet.
C15_Witness ==
    /\ gen.state = "finished"
    /\ gen.raised = "none"
    /\ NumRows(df) = 2
    /\ Len(df.columns) = 2
    /\ Len(consumed[1]) = 2
    /\ consumed[1][1].text # consumed[1][2].text

\* C16: iterating the returned sequence a second time, after it is exhausted,
\* yields again one document per data row, as many as the first pass.
C16_SecondPassYieldsAgain ==
    (gen.state = "finished" /\ gen.raised = "none" /\ Len(consumed) >= 2) =>
        /\ Len(consumed[2]) = Len(consumed[1])
        /\ Len(consumed[2]) = NumRows(df)

(***************************************************************************)
(* SpreadsheetValidationViewSet.create. A request is the data the input    *)
(* serializer accepted: the form (survey), the spreadsheet (sheet),        *)
(* generate_xml and version. An answer is                                  *)
(*   [kind |-> "response", status |-> 200, data |-> d]  a Response, or     *)
(*   [kind |-> "exception", exc |-> e]  an exception that leaves create.   *)
(***************************************************************************)
\* a file that is not a workbook
Corrupt == [bytes |-> "garbage"]

\* def parse_xlsform(self, xlsform_file): the parameters besides self
parse_xlsform_parameters == <<"xlsform_file">>

Response(data) == [kind |-> "response", status |-> 200, data |-> data]

Raised(exc) == [kind |-> "exception", exc |-> exc]

\* the one error of the answer to a failed document generation
XmlGenerationError ==
    [line |-> 0, column |-> 0, error_type |-> "xml_generation_error",
     error_explanation |-> "Failed to generate XML", question_name |-> <<>>]

\* the one error of the answer to a form parse_xlsform returned False for
XLSFormParsingError ==
    [line |-> 0, column |-> 0, error_type |-> "error_parsing",
     error_explanation |-> "Failed to parse XLSForm file", question_name |-> <<>>]

\* create up to the call validator.parse_xlsform(xlsform_file, version): the
\* call passes two arguments to a method that takes one, which raises
\* TypeError before the method body runs; nothing in create catches it
create ==
    /\ pc = "request"
    /\ LET args == <<survey, request.v.version>>
       IN  IF Len(args) # Len(parse_xlsform_parameters)
           THEN /\ response' = Some(Raised("TypeError"))
                /\ pc' = "responded"
                /\ UNCHANGED schema_vars
           ELSE IF ~Parseable(survey)
           THEN /\ response' =
                      Some(Response([keys |-> {"result", "errors"},
                                     result |-> "invalid",
                                     errors |-> <<XLSFormParsingError>>]))
                /\ pc' = "responded"
                /\ UNCHANGED schema_vars
           ELSE LET st == _extract_questions_from_pyxform(survey, SchemaState)
                    ch == _extract_choices_from_pyxform(survey, choice_lists,
                                                        choice_aliases)
                IN  /\ question_types' = st.question_types
                    /\ question_labels' = st.question_labels
                    /\ required_questions' = st.required_questions
                    /\ question_constraints' = st.question_constraints
                    /\ choice_lists' = ch.choice_lists
                    /\ choice_aliases' = ch.choice_aliases
                    /\ data_instance_template' =
                           _extract_data_instance_template(
                               survey, data_instance_template)
                    /\ pc' = "parsed"
                    /\ UNCHANGED response
    /\ UNCHANGED <<survey, scan_vars, call, ret, runner_vars, readable_vars,
                   gen, consumed,
                   request, session>>

\* create_highlighted_excel(spreadsheet_file, errors): the cells filled red
\* and the rows of the sheet "Errors"
create_highlighted_excel(errs) ==
    [fills |-> {<<errs[k].line, errs[k].column>> :
                   k \in {i \in 1..Len(errs) : errs[i].line > 1}},
     errors_header |->
        <<"Line", "Column", "Question", "Error Type", "Explanation">>,
     errors_sheet |->
        [k \in 1..Len(errs) |->
            <<errs[k].line, errs[k].column, errs[k].question_name,
              errs[k].error_type, errs[k].error_explanation>>]]

\* ValidationResultSerializer accepts the errors: a CharField takes no blank
ErrorsSerializable(errs) ==
    \A k \in 1..Len(errs) : errs[k].question_name # <<>>

\* create from the return of validate_spreadsheet on: the answer is built
\* from the result
create_respond ==
    /\ pc = "done"
    /\ request # None
    /\ response = None
    /\ IF result.is_valid
       THEN /\ response' =
                  IF ~request.v.generate_xml
                  THEN Some(Response([keys |-> {"result"}, result |-> "valid"]))
                  ELSE IF "valides" \in DOMAIN result
                  THEN Some(Response([keys |-> {"result", "xml_files"},
                                      result |-> "valid",
                                      xml_files |-> result.valides]))
                  ELSE Some(Response([keys |-> {"result", "errors"},
                                      result |-> "invalid",
                                      errors |-> <<XmlGenerationError>>]))
            /\ UNCHANGED session
       ELSE IF ~Readable(sheet)
       THEN /\ response' = Some(Raised("InvalidFileException"))
            /\ UNCHANGED session
       ELSE LET validation_id == <<"validation", Cardinality(DOMAIN session)>>
            IN  /\ session' = Put(session, validation_id,
                                  [file_data |-> create_highlighted_excel(result.errors),
                                   errors |-> result.errors])
                /\ response' =
                       IF ErrorsSerializable(result.errors)
                       THEN Some(Response([keys |-> {"result", "errors", "download_id"},
                                           result |-> "invalid",
                                           errors |-> result.errors,
                                           download_id |-> validation_id]))
                       ELSE Some(Raised("ValidationError"))
    /\ pc' = "responded"
    /\ UNCHANGED <<survey, schema_vars, scan_vars, call, ret, runner_vars,
                   readable_vars,
                   gen, consumed, request>>

Requests == {Some([generate_xml |-> g, version |-> v_1_dot_0]) : g \in BOOLEAN}

\* the handler as it is written
InitCreate ==
    /\ survey \in Surveys \cup {Corrupt}
    /\ sheet \in GenSheets \cup {Corrupt}
    /\ question_types = EmptyDict
    /\ question_constraints = EmptyDict
    /\ required_questions = {}
    /\ choice_lists = EmptyDict
    /\ question_labels = EmptyDict
    /\ choice_aliases = EmptyDict
    /\ data_instance_template = None
    /\ df = [columns |-> <<>>, data |-> <<>>]
    /\ errors = <<>>
    /\ col_idx = 0
    /\ row_idx = 0
    /\ question_name = None
    /\ result = None
    /\ pc = "request"
    /\ call = NoCall
    /\ ret = None
    /\ proc = NoProc
    /\ watchdog = NoTimer
    /\ kill_check = FALSE
    /\ signals = <<>>
    /\ popen_result = None
    /\ gen = NoGenerator
    /\ consumed = <<>>
    /\ request \in Requests
    /\ response = None
    /\ session = EmptyDict
    /\ tries = 0
    /\ attempts = 0

NextCreate == create

SpecCreate == InitCreate /\ [][NextCreate]_vars

\* the handler from line 70 on, for a validator whose parse_xlsform was called
\* with the form alone, as the unit tests call it
InitRespond ==
    /\ survey \in Surveys
    /\ sheet \in GenSheets \cup {Corrupt}
    /\ InitValidator
    /\ proc = NoProc
    /\ watchdog = NoTimer
    /\ kill_check = FALSE
    /\ signals = <<>>
    /\ popen_result = None
    /\ gen = NoGenerator
    /\ consumed = <<>>
    /\ request \in Requests
    /\ response = None
    /\ session = EmptyDict
    /\ tries = 0
    /\ attempts = 0

NextRespond ==
    \/ parse_xlsform
    \/ validate_spreadsheet
    \/ scan_cell
    \/ return_result
    \/ create_respond

SpecRespond == InitRespond /\ [][NextRespond]_vars

(***************************************************************************)
(* Properties of create.                                                   *)
(***************************************************************************)
Answered == pc = "responded"

\* the answer is a Response carrying xml_files
HasXmlFiles ==
    /\ response.v.kind = "response"
    /\ "xml_files" \in response.v.data.keys

\* C17: the answer carries xml_files exactly when generation was requested
\* and the spreadsheet is valid: then the result is "valid" with one document
\* per data row; without the flag, or for an invalid spreadsheet, the answer
\* has no xml_files.
C17_XmlFilesWhenRequestedAndValid ==
    Answered =>
        IF request.v.generate_xml /\ Readable(sheet) /\ SheetValidates
        THEN /\ HasXmlFiles
             /\ response.v.data.result = "valid"
             /\ Len(response.v.data.xml_files) = NumRows(df)
        ELSE ~HasXmlFiles

C19_AlwaysAWellFormedAnswer ==
    /\ pc = "done" =>
          /\ "is_valid" \in DOMAIN result
          /\ ~Readable(sheet) =>
                result = [is_valid |-> FALSE, errors |-> <<ParsingError>>]
    /\ Answered =>
          /\ response.v.kind = "response"
          /\ response.v.data.result \in {"valid", "invalid"}

\* C22: for a form that cannot be parsed create answers "invalid" with
\* exactly one parsing error (line 0, column 0) and never invokes
\* validate_spreadsheet: no header check, no row validation.
C22_FailedParseAnswersInvalid ==
    (Answered /\ ~Parseable(survey)) =>
        /\ response.v.kind = "response"
        /\ response.v.data.result = "invalid"
        /\ Len(response.v.data.errors) = 1
        /\ response.v.data.errors[1].line = 0
        /\ response.v.data.errors[1].column = 0
        /\ result = None
        /\ errors = <<>>

(***************************************************************************)
(* Specification of two validations of one spreadsheet by one validator.   *)
(***************************************************************************)
\* the caller keeps the result and calls validate_spreadsheet on the same
\* file once more
validate_again ==
    /\ pc = "done"
    /\ ret = None
    /\ call' = [method |-> "validate_spreadsheet"]
    /\ ret' = Some(result)
    /\ pc' = "parsed"
    /\ UNCHANGED <<survey, schema_vars, scan_vars>>
    /\ UNCHANGED ext_vars

InitTwice ==
    /\ survey \in Surveys
    /\ sheet \in GenSheets \cup {Corrupt}
    /\ InitValidator
    /\ InitIdle

NextTwice ==
    \/ parse_xlsform
    \/ validate_spreadsheet
    \/ scan_cell
    \/ return_result
    \/ validate_again

SpecTwice == InitTwice /\ [][NextTwice]_vars

\* the schema state parse_xlsform builds for the form
SchemaOfSurvey ==
    LET st == _extract_questions_from_pyxform(survey, SchemaState)
        ch == _extract_choices_from_pyxform(survey, EmptyDict, EmptyDict)
    IN  <<st.question_types, st.question_constraints, st.required_questions,
          ch.choice_lists, st.question_labels, ch.choice_aliases,
          _extract_data_instance_template(survey, None)>>

\* C20: validate_spreadsheet without xlsform_data leaves the schema state as
\* parse_xlsform built it, and a second validation of the same spreadsheet by
\* the same validator returns the same result: the same errors in the same
\* order.
C20_ValidationIsRepeatable ==
    /\ pc # "new" => schema_vars = SchemaOfSurvey
    /\ (pc = "done" /\ ret # None) => result = ret.v

\* C20 witness: the second validation ended with the same two or more errors
\* as the first.
C20_Witness ==
    /\ pc = "done"
    /\ ret # None
    /\ ~result.is_valid
    /\ Len(result.errors) >= 2
    /\ result.errors = ret.v.errors

(***************************************************************************)
(* Specification of a validator that generates up to MaxDocs documents,    *)
(* each from a dictionary: generate_xml_from_dict turns the dictionary     *)
(* into a row (pd.Series) and calls _generate_xml_for_row. The row is held *)
(* as a frame of one row: the keys are the columns.                        *)
(***************************************************************************)
MaxDocs == 2

DictValues == {PyI(1), PyI(200), NaN}

\* {}, {k: v} and {"age": v, "status": w}
DictInputs ==
    {[columns |-> <<>>, data |-> <<>>]}
    \cup {[columns |-> <<k>>, data |-> <<<<v>>>>] :
             k \in {s_age, s_Age, s_status, s_zzz}, v \in DictValues}
    \cup {[columns |-> <<s_age, s_status>>, data |-> <<<<v>>, <<w>>>>] :
             v \in DictValues, w \in DictValues}

\* the dictionaries handed to generate_xml_from_dict so far
DictsGiven ==
    IF call.method = "generate_xml_from_dict" THEN call.dicts ELSE <<>>

\* A call without a template raises ValueError and returns no document;
\* call.dicts holds the dictionaries a document was returned for.
generate_xml_from_dict ==
    /\ pc \in {"new", "parsed"}
    /\ Len(consumed) < MaxDocs
    /\ \E data_dict \in DictInputs :
          IF NoTemplate(data_instance_template)
          THEN /\ call' = [method |-> "generate_xml_from_dict",
                           dicts |-> DictsGiven]
               /\ ret' = Some(Raised("ValueError"))
               /\ UNCHANGED <<consumed, data_instance_template>>
          ELSE LET out == _generate_xml_for_row(data_dict, 1, v_1_dot_0,
                                                Len(consumed))
               IN  /\ call' = [method |-> "generate_xml_from_dict",
                               dicts |-> Append(DictsGiven, data_dict)]
                   /\ ret' = Some(out.xml)
                   /\ consumed' = Append(consumed, <<out.xml>>)
                   /\ data_instance_template' = out.template
    /\ UNCHANGED <<survey, question_vars, scan_vars, pc, runner_vars,
                   readable_vars, gen, request, response, session>>

InitDocuments ==
    /\ survey \in GenSurveys
    /\ sheet = NoSheet
    /\ InitValidator
    /\ InitIdle

NextDocuments ==
    \/ parse_xlsform
    \/ generate_xml_from_dict

SpecDocuments == InitDocuments /\ [][NextDocuments]_vars

\* C29: generating a document leaves the stored data instance template as
\* parse_xlsform built it, and after any sequence of calls each document
\* holds only values of its own row: every text in the k-th document is the
\* text of a value the k-th row holds for that question, so a field that is
\* empty in a row never shows the value an earlier row had for it.
C29_TemplateIsNeverWritten ==
    pc = "parsed" =>
        /\ data_instance_template = _extract_data_instance_template(survey, None)
        /\ Len(consumed) = Len(DictsGiven)
        /\ \A k \in 1..Len(consumed) :
              LET doc == consumed[k][1]
                  d == DictsGiven[k]
              IN  \A q \in DOMAIN doc.text :
                      \E c \in 1..Len(d.columns) :
                          /\ ~isna(d.data[c][1])
                          /\ _resolve_column_to_question_name(d.columns[c])
                                 = Some(q)
                          /\ doc.text[q] = ElementText(d.data[c][1])

\* C29 witness: the first document holds an age, the second was generated
\* from a dictionary whose age is empty and holds a status and no age.
C29_Witness ==
    /\ pc = "parsed"
    /\ Len(consumed) = 2
    /\ s_age \in DOMAIN consumed[1][1].text
    /\ DictsGiven[2].columns = <<s_age, s_status>>
    /\ isna(DictsGiven[2].data[1][1])
    /\ DOMAIN consumed[2][1].text = {s_status}

(***************************************************************************)
(* Specification of one validator instance that parses up to MaxParses     *)
(* forms, one after the other.                                             *)
(***************************************************************************)
MaxParses == 3

ReparseSurveys == GenSurveys \cup {Corrupt}

\* the number of forms handed to the instance so far
Parses == IF call = NoCall THEN 1 ELSE call.n

\* the caller hands another form to the same instance
parse_another ==
    /\ pc \in {"parsed", "parse_failed"}
    /\ Parses < MaxParses
    /\ survey' \in ReparseSurveys
    /\ call' = [method |-> "parse_xlsform", n |-> Parses + 1]
    /\ pc' = "new"
    /\ UNCHANGED <<schema_vars, scan_vars, ret>>
    /\ UNCHANGED ext_vars

InitReparse ==
    /\ survey \in ReparseSurveys
    /\ sheet = NoSheet
    /\ InitValidator
    /\ InitIdle

NextReparse ==
    \/ parse_xlsform
    \/ parse_another

SpecReparse == InitReparse /\ [][NextReparse]_vars

\* the schema state a new validator builds for the form f
FreshSchema(f) ==
    LET st == _extract_questions_from_pyxform(
                  f, [question_types |-> EmptyDict,
                      question_labels |-> EmptyDict,
                      required_questions |-> {},
                      question_constraints |-> EmptyDict])
        ch == _extract_choices_from_pyxform(f, EmptyDict, EmptyDict)
    IN  [question_types |-> st.question_types,
         question_labels |-> st.question_labels,
         required_questions |-> st.required_questions,
         question_constraints |-> st.question_constraints,
         choice_lists |-> ch.choice_lists]

\* the schema state describes exactly the form in survey
DescribesSurvey ==
    LET fresh == FreshSchema(survey)
    IN  /\ question_types = fresh.question_types
        /\ question_labels = fresh.question_labels
        /\ required_questions = fresh.required_questions
        /\ question_constraints = fresh.question_constraints
        /\ choice_lists = fresh.choice_lists

\* C28: after parse_xlsform returned True the schema state describes exactly
\* the form just parsed, whatever was parsed before on the same instance: no
\* question, label, required flag or constraint of an earlier form remains
\* and no choice list holds a value twice because of the re-parsing.
C28_StateDescribesLastForm ==
    pc = "parsed" => DescribesSurvey

\* what the code guarantees instead for C28: the first successful parse of an
\* instance gives exactly the form, and every later one adds to what is
\* there
C28_FirstParseDescribesForm ==
    /\ (pc = "parsed" /\ Parses = 1) => DescribesSurvey
    /\ pc = "parsed" =>
          LET fresh == FreshSchema(survey)
          IN  /\ DOMAIN fresh.question_types \subseteq DOMAIN question_types
              /\ fresh.required_questions \subseteq required_questions
              /\ \A l \in DOMAIN fresh.choice_lists :
                    /\ l \in DOMAIN choice_lists
                    /\ Len(choice_lists[l]) >= Len(fresh.choice_lists[l])

\* C28 witness: the same form was parsed a second time by the instance.
C28_Witness ==
    /\ pc = "parsed"
    /\ Parses = 2
    /\ survey = FormA
    /\ DOMAIN question_types = {s_age, s_status}

(***************************************************************************)
(* check_readable(file_path, retry_limit, wait_seconds). Whether open()    *)
(* succeeds is the environment's choice at every attempt: the file may be  *)
(* locked by another process, and the lock may clear.                      *)
(***************************************************************************)
MaxRetries == 10

\* the call: tries = 0
check_readable ==
    /\ pc = "call"
    /\ \E retry_limit \in 0..MaxRetries :
          call' = [method |-> "check_readable", retry_limit |-> retry_limit]
    /\ tries' = 0
    /\ attempts' = 0
    /\ pc' = "loop"
    /\ UNCHANGED <<survey, schema_vars, scan_vars, ret, runner_vars, view_vars>>

\* one evaluation of the loop condition `not catch_try()` and of the body
\* it leads to: return True, sleep and try again, or raise OSError
catch_try ==
    /\ pc = "loop"
    /\ attempts' = attempts + 1
    /\ \E opened \in BOOLEAN :
          IF opened
          THEN /\ ret' = Some([kind |-> "return", value |-> TRUE])
               /\ pc' = "returned"
               /\ UNCHANGED tries
          ELSE IF tries < call.retry_limit
          THEN /\ tries' = tries + 1
               /\ UNCHANGED <<ret, pc>>
          ELSE /\ ret' = Some([kind |-> "raise", exc |-> "OSError"])
               /\ pc' = "returned"
               /\ UNCHANGED tries
    /\ UNCHANGED <<survey, schema_vars, scan_vars, call, runner_vars, view_vars>>

InitReadable == InitRunner

NextReadable ==
    \/ check_readable
    \/ catch_try

SpecReadable == InitReadable /\ [][NextReadable]_vars

\* the loop is the only thread: it keeps running
SpecReadableLive == SpecReadable /\ WF_vars(NextReadable)

ReadableReturned == pc = "returned" /\ call.method = "check_readable"

\* C26: check_readable makes at most retry_limit attempts to open the file,
\* returns True as soon as one succeeds, and raises OSError after exactly
\* retry_limit attempts when every attempt fails.
C26_AtMostRetryLimitAttempts ==
    /\ pc = "loop" => attempts <= call.retry_limit
    /\ ReadableReturned =>
          /\ attempts <= call.retry_limit
          /\ ret.v.kind = "raise" => attempts = call.retry_limit

\* what the code does instead for C26: at most retry_limit + 1 attempts, the
\* first retry_limit of them followed by a sleep, True at the first attempt
\* that succeeds, OSError after exactly retry_limit + 1 failed attempts
C26_AtMostRetryLimitPlusOneAttempts ==
    /\ pc = "loop" => (attempts = tries /\ tries <= call.retry_limit)
    /\ ReadableReturned =>
          /\ attempts <= call.retry_limit + 1
          /\ ret.v.kind = "raise" =>
                (attempts = call.retry_limit + 1 /\ tries = call.retry_limit)
          /\ ret.v.kind = "return" => attempts = tries + 1

\* C26, termination: every call of check_readable returns or raises
C26_Terminates == <>(pc = "returned")

\* C26 witness: a call with retry_limit 10 raised OSError after every
\* attempt had failed.
C26_Witness ==
    /\ ReadableReturned
    /\ call.retry_limit = 10
    /\ ret.v.kind = "raise"

(***************************************************************************)
(* Specification of direct calls of _validate_constraint with any value a  *)
(* cell can hold, under the questions of TypeFormA.                        *)
(***************************************************************************)
\* the constraint  . != 0
NotZero == XPathConstraint([op |-> "!=", rhs |-> 0])

\* a text the XPath parser rejects
BrokenExpression == XPathConstraint([op |-> "invalid"])

ExpressionConstraints == {LessThan150, NotZero, BrokenExpression, ThreeDigits}

ExpressionValues ==
    {PyS(v_abc), PyS(v_1), PyS(v_1_0), PyI(1), PyI(200), PyF(15), NaN, PyInf,
     Timestamp}

validate_constraint_any ==
    /\ pc = "parsed"
    /\ \E value \in ExpressionValues, constraint \in ExpressionConstraints,
          q \in DOMAIN question_types :
          LET exc == _validate_constraint_raises(value, constraint, q)
          IN  /\ call' = [method |-> "_validate_constraint", value |-> value,
                          constraint |-> constraint, question_name |-> q]
              /\ ret' = Some(IF exc # "none"
                             THEN [kind |-> "raise", exc |-> exc]
                             ELSE [kind |-> "return",
                                   value |-> _validate_constraint(value,
                                                                  constraint, q)])
    /\ pc' = "returned"
    /\ UNCHANGED <<survey, schema_vars, scan_vars>>
    /\ UNCHANGED ext_vars

InitExpression ==
    /\ survey = TypeFormA
    /\ sheet = NoSheet
    /\ InitValidator
    /\ InitIdle

NextExpression ==
    \/ parse_xlsform
    \/ validate_constraint_any

SpecExpression == InitExpression /\ [][NextExpression]_vars

\* the call was made with an expression constraint
ExpressionChecked ==
    /\ pc = "returned"
    /\ call.method = "_validate_constraint"
    /\ call.constraint.dialect = "xpath"

\* the value is a number of the type, or a text that denotes one
Coercible(value, qt) ==
    IF qt = t_integer
    THEN \/ value.t \in {"int", "float"}
         \/ value.t = "str" /\ IntLiteral(value.s)
    ELSE \/ value.t \in {"int", "float", "nan", "inf"}
         \/ value.t = "str" /\ FloatLiteral(value.s)

\* the outcome the claim C25 describes for the call
FailsClosed ==
    LET qt == question_types[call.question_name]
        numeric == qt \in {t_integer, t_decimal}
    IN  /\ ret.v.kind = "return"
        /\ (numeric /\ ~Coercible(call.value, qt)) =>
              ret.v.value \in
                  {Some("Cannot validate constraint for non-integer value"),
                   Some("Cannot validate constraint for non-decimal value")}
        /\ (/\ call.constraint.expr.op = "invalid"
            /\ numeric => Coercible(call.value, qt)) =>
              ret.v.value = Some("Constraint is not satisfied")

MaxDepth == 2

s_instance == <<"i", "n", "s", "t", "a", "n", "c", "e">>

\* questions, a node without a type, and a group without children
FlattenLeaves ==
    {Question(s_age, t_integer, TRUE, s_Age, TRUE,
              Bind(TRUE, s_yes, TRUE, LessThan150)),
     Question(s_status, t_text, FALSE, <<>>, FALSE, NoBind),
     Question(s_age, t_decimal, FALSE, <<>>, FALSE, NoBind),
     [keys |-> {"name"}, name |-> s_zzz, type |-> <<>>, label |-> <<>>,
      bind |-> NoBind, children |-> <<>>],
     [keys |-> {"name", "type"}, name |-> s_grp, type |-> t_group,
      label |-> <<>>, bind |-> NoBind, children |-> <<>>]}

\* a node put into a group or into the meta section
Wrap(n) ==
    {Group(s_grp, <<n>>),
     Group(s_grp, <<Question(s_instance, t_text, FALSE, <<>>, FALSE, NoBind), n>>),
     Group(s_meta, <<n>>)}

RECURSIVE FlattenNodes(_)
FlattenNodes(d) ==
    IF d = 0 THEN FlattenLeaves
    ELSE FlattenNodes(d - 1) \cup UNION {Wrap(n) : n \in FlattenNodes(d - 1)}

FlattenSurveys ==
    {Form(<<n>>, EmptyDict) : n \in FlattenNodes(MaxDepth)}
    \cup {Form(<<n, Question(s_status, t_integer, FALSE, <<>>, FALSE, NoBind)>>,
                EmptyDict) : n \in FlattenNodes(MaxDepth)}

InitFlatten ==
    /\ survey \in FlattenSurveys
    /\ sheet = NoSheet
    /\ InitValidator
    /\ InitIdle

NextFlatten == parse_xlsform

SpecFlatten == InitFlatten /\ [][NextFlatten]_vars

\* the nodes below children that hold other nodes: groups and meta sections
RECURSIVE Containers(_)
Containers(children) ==
    IF children = <<>> THEN {}
    ELSE LET node == Head(children)
         IN  (IF {"name", "type"} \subseteq node.keys
                 /\ (node.name = s_meta \/ node.type = t_group)
              THEN {node} \cup Containers(node.children)
              ELSE {})
             \cup Containers(Tail(children))

\* the nodes below children with a name and a type that are no group and no
\* meta section, in document order, at whatever depth
RECURSIVE Leaves(_)
Leaves(children) ==
    IF children = <<>> THEN <<>>
    ELSE LET node == Head(children)
         IN  (IF ~({"name", "type"} \subseteq node.keys) THEN <<>>
              ELSE IF node.name = s_meta \/ node.type = t_group
              THEN Leaves(node.children)
              ELSE <<node>>)
             \o Leaves(Tail(children))

\* the nesting depth of the deepest node
RECURSIVE Depth(_)
Depth(children) ==
    IF children = <<>> THEN 0
    ELSE LET a == 1 + Depth(Head(children).children)
             b == Depth(Tail(children))
         IN  IF a > b THEN a ELSE b

\* C24: the extraction registers every question that has a name and a type,
\* at whatever depth inside groups or the meta section, in the same mappings
\* as the form with the same questions and no grouping would, and registers
\* no group and no meta node: a name is registered only for a question, and
\* the name of a group or meta section resolves only when a question bears
\* it as its name or label.
C24_GroupingIsTransparent ==
    pc = "parsed" =>
        LET leaves == Leaves(survey.children)
            flat == _extract_questions_from_pyxform(
                        Form(leaves, EmptyDict),
                        [question_types |-> EmptyDict,
                         question_labels |-> EmptyDict,
                         required_questions |-> {},
                         question_constraints |-> EmptyDict])
        IN  /\ SchemaState = flat
            /\ DOMAIN question_types =
                   {leaves[i].name : i \in 1..Len(leaves)}
            /\ \A g \in Containers(survey.children) :
                   _resolve_column_to_question_name(g.name) # None =>
                       \E i \in 1..Len(leaves) :
                           \/ leaves[i].name = g.name
                           \/ /\ "label" \in leaves[i].keys
                              /\ leaves[i].label = g.name

\* C24 witness: a question two groups deep is registered with its type, its
\* label, its required flag and its constraint, and neither the group nor
\* the meta section around it resolves.
C24_Witness ==
    /\ pc = "parsed"
    /\ Depth(survey.children) = 3
    /\ Len(survey.children) = 1
    /\ {g.name : g \in Containers(survey.children)} = {s_grp, s_meta}
    /\ question_types = [n \in {s_age} |-> t_integer]
    /\ s_Age \in DOMAIN question_labels
    /\ s_age \in required_questions
    /\ s_age \in DOMAIN question_constraints
    /\ _resolve_column_to_question_name(s_grp) = None
    /\ _resolve_column_to_question_name(s_meta) = None

(***************************************************************************)
(* Specification of a validation run under a form whose constraint has a   *)
(* custom message.                                                         *)
(***************************************************************************)
v_too_old == <<"t", "o", "o", " ", "o", "l", "d">>

\* age: integer, . < 150 with the message "too old"; status: integer
FormM ==
    Form(<<Question(s_age, t_integer, TRUE, s_Age, TRUE,
                    BindMsg(Bind(FALSE, <<>>, TRUE, LessThan150), v_too_old)),
           Question(s_status, t_integer, FALSE, <<>>, FALSE, NoBind)>>,
         EmptyDict)

InitMessage ==
    /\ survey = FormM
    /\ sheet \in GenSheets
    /\ InitValidator
    /\ InitIdle

NextMessage ==
    \/ parse_xlsform
    \/ validate_spreadsheet
    \/ scan_cell
    \/ return_result

SpecMessage == InitMessage /\ [][NextMessage]_vars

\* the custom message of an error record, None when it has none
ConstraintMessage(err) ==
    IF "constraint_message" \in DOMAIN err THEN Some(err.constraint_message)
    ELSE None

\* the custom messages the form defines, by question name
RECURSIVE ConstraintMessages(_)
ConstraintMessages(children) ==
    IF children = <<>> THEN EmptyDict
    ELSE LET node == Head(children)
             rest == ConstraintMessages(node.children)
                     @@ ConstraintMessages(Tail(children))
         IN  IF /\ "bind" \in node.keys
                /\ "jr:constraintMsg" \in node.bind.keys
             THEN Put(rest, node.name, node.bind.constraintMsg)
             ELSE rest

\* C23: every constraint_unsatisfied error of a question whose constraint has
\* a custom message carries that message in a field constraint_message of
\* its own, and error_explanation does not hold the message.
C23_ErrorCarriesConstraintMessage ==
    pc = "done" =>
        \A k \in 1..Len(errors) :
            LET err == errors[k]
                msgs == ConstraintMessages(survey.children)
            IN  (/\ err.error_type = ERROR_CONSTRAINT_UNSATISFIED
                 /\ err.question_name \in DOMAIN msgs) =>
                    /\ ConstraintMessage(err) = Some(msgs[err.question_name])
                    /\ ~Contains(err.error_explanation,
                                 msgs[err.question_name])

\* what the code does instead for C23: the error record of a failed
\* constraint has the five fields of every error and no other
C23_ErrorHasNoMessageField ==
    pc = "done" =>
        \A k \in 1..Len(errors) :
            DOMAIN errors[k] = {"line", "column", "error_type",
                                "error_explanation", "question_name"}

\* C23 witness: a run ended with a constraint_unsatisfied error of the
\* question whose constraint has the custom message.
C23_Witness ==
    /\ pc = "done"
    /\ \E k \in 1..Len(errors) :
          /\ errors[k].error_type = ERROR_CONSTRAINT_UNSATISFIED
          /\ errors[k].question_name = s_age

(***************************************************************************)
(* create_highlighted_excel called directly on a readable spreadsheet with *)
(* a list of errors: any list of records as the validator builds them, an  *)
(* error of a data row at its column, a header error on line 1, the        *)
(* parsing error on line 0.                                                *)
(***************************************************************************)
MaxErrors == 2

v_msg == <<"m", "s", "g">>

ErrorInputs ==
    {ParsingError}
    \cup {ErrorRecord(l, c, t, v_msg, s_age) :
             l \in 1..3, c \in 1..2,
             t \in {ERROR_TYPE_MISMATCH, ERROR_CONSTRAINT_UNSATISFIED}}

ErrorLists == UNION {[1..n -> ErrorInputs] : n \in 0..MaxErrors}

highlight ==
    /\ pc = "call"
    /\ \E errs \in ErrorLists :
          /\ call' = [method |-> "create_highlighted_excel", errors |-> errs]
          /\ ret' = Some(create_highlighted_excel(errs))
    /\ pc' = "returned"
    /\ UNCHANGED <<survey, schema_vars, scan_vars>>
    /\ UNCHANGED ext_vars

\* a validator and a caller about to call
InitHighlight == InitRunner

NextHighlight == highlight

SpecHighlight == InitHighlight /\ [][NextHighlight]_vars

Highlighted == pc = "returned" /\ call.method = "create_highlighted_excel"

\* C21, the marking: the cells filled are the cells (line, column) of the
\* errors whose line is greater than 1, so no cell of the header row is
\* filled, and the table has one row per error, in the order of the list,
\* with line, column, question, error kind and explanation.
C21_MarksErrorCellsBelowHeader ==
    Highlighted =>
        LET errs == call.errors
            out == ret.v
        IN  /\ \A k \in 1..Len(errs) :
                  errs[k].line > 1 =>
                      <<errs[k].line, errs[k].column>> \in out.fills
            /\ \A cell \in out.fills :
                  /\ cell[1] > 1
                  /\ \E k \in 1..Len(errs) :
                        cell = <<errs[k].line, errs[k].column>>
            /\ Len(out.errors_sheet) = Len(errs)
            /\ \A k \in 1..Len(errs) :
                  SubSeq(out.errors_sheet[k], 1, 5) =
                      <<errs[k].line, errs[k].column, errs[k].question_name,
                        errs[k].error_type, errs[k].error_explanation>>

\* C21: create_highlighted_excel marks the cell of every error below the
\* header row and no header cell, and the table it appends has one row per
\* error, in the order of the list, listing line, column, question, error
\* kind, explanation and custom message.
C21_TableListsCustomMessage ==
    /\ C21_MarksErrorCellsBelowHeader
    /\ Highlighted =>
          /\ Len(ret.v.errors_header) = 6
          /\ \A k \in 1..Len(call.errors) :
                /\ Len(ret.v.errors_sheet[k]) = 6
                /\ ret.v.errors_sheet[k][6] = ConstraintMessage(call.errors[k])

\* C21 witness: a list with an error on line 0 or 1 and an error below the
\* header was highlighted.
C21_Witness ==
    /\ Highlighted
    /\ Len(call.errors) = 2
    /\ call.errors[1].line <= 1
    /\ call.errors[2].line > 1
    /\ ret.v.fills = {<<call.errors[2].line, call.errors[2].column>>}


(***************************************************************************)
(* Specification of direct calls of _validate_type for select questions    *)
(* with and without a choice list: the type names no list, names the empty *)
(* list, names a list the form does not define, or names the list gender.  *)
(***************************************************************************)
s_one == <<"o", "n", "e">>

s_many == <<"m", "a", "n", "y">>

s_blank == <<"b", "l", "a", "n", "k">>

s_file == <<"f", "i", "l", "e">>

t_select_one_blank == t_select_one \o <<" ">>

t_select_one_from_file == t_select_one \o <<"_", "f", "r", "o", "m", "_", "f", "i", "l", "e">>

t_select_multiple_status == t_select_multiple \o <<" ">> \o s_status

SelectForm ==
    Form(<<Question(s_one, t_select_one, FALSE, <<>>, FALSE, NoBind),
           Question(s_many, t_select_multiple, FALSE, <<>>, FALSE, NoBind),
           Question(s_blank, t_select_one_blank, FALSE, <<>>, FALSE, NoBind),
           Question(s_file, t_select_one_from_file, FALSE, <<>>, FALSE, NoBind),
           Question(s_status, t_select_one_status, FALSE, <<>>, FALSE, NoBind),
           Question(s_tags, t_select_multiple_status, FALSE, <<>>, FALSE, NoBind),
           Question(s_gender, t_select_one_gender, FALSE, <<>>, FALSE, NoBind)>>,
         [l \in {s_gender} |-> <<Choice(PyS(v_male)), Choice(PyS(v_female))>>])

InitSelect ==
    /\ survey = SelectForm
    /\ sheet = NoSheet
    /\ InitValidator
    /\ InitIdle

SpecSelect == InitSelect /\ [][NextType]_vars

\* the type of the call is a select type
SelectType ==
    \/ StartsWith(call.question_type, t_select_one)
    \/ StartsWith(call.question_type, t_select_multiple)

\* the type of the call yields no list name, or one the form has no list for
WithoutList ==
    \/ ~call.list_name.some
    \/ call.list_name.v \notin DOMAIN survey.choices

\* C30: for a question whose type starts with select_one or select_multiple
\* and whose list name cannot be extracted or names no choice list of the
\* form, _validate_type accepts every non-empty value.
C30_SelectWithoutListAcceptsAll ==
    (TypeChecked /\ SelectType /\ WithoutList) => ret = None

\* C30 witness: a value with a token that is no choice of any list passed for
\* the select_multiple question whose list status the form does not define.
C30_Witness ==
    /\ TypeChecked
    /\ call.question_type = t_select_multiple_status
    /\ call.list_name = Some(s_status)
    /\ call.value = PyS(v_male_unknown)
    /\ ret = None

====
